---- MODULE Spec2Model ----
(***************************************************************************)
(* TESTRis: grid, body matching, compaction and cascade resolution.        *)
(*                                                                         *)
(* The pieces live in an arena `pieces` (id -> Piece); an id plays the     *)
(* role of a *Piece pointer, Nil is the nil pointer.  The grid operations  *)
(* are operators on a grid value                                           *)
(*   [pieces, lockedPieces, content, fatal]                                *)
(* where fatal records that the process has been aborted (log.Fatalf or a  *)
(* run-time panic); an aborted process performs no further operation.      *)
(***************************************************************************)
EXTENDS Integers, Sequences, FiniteSets, TLC

VARIABLES
    pieces,        \* arena: id -> [pieceType, pos, currentRotation, size]
    lockedPieces,  \* GridComp.lockedPieces: sequence of piece ids
    content,       \* GridComp.content: <<x, y>> -> piece id or Nil
    fatal,         \* the process was aborted by log.Fatalf / a panic
    activePiece,   \* Game.activePiece (id or Nil)
    nextPiece,     \* Game.nextPiece (id or Nil)
    score,         \* Game.score
    gameOverState, \* state of the game-over DialogComp
    apcState,      \* state of the active-piece component
    nextId,        \* number of pieces allocated so far + 1
    pc,            \* position of the driver: "game", "idle", "round", "returned"
    queue,         \* seed list of the pending joinAndScorePieces round
    depth,         \* nesting depth of the running joinAndScorePieces call
    obs            \* observations of the most recent call (history variable)

vars == <<pieces, lockedPieces, content, fatal, activePiece, nextPiece, score,
          gameOverState, apcState, nextId, pc, queue, depth, obs>>

-----------------------------------------------------------------------------
(* Bounds of the model *)

GridW == 4          \* gridSize.w, scaled down
GridH == 3          \* gridSize.h, scaled down
MaxSpawn == 5       \* pieces generated in one run of the game
MaxSpawnRot == 0    \* generatePiece draws rotation index 0..MaxSpawnRot (at most 3)
MaxFill == 4        \* pieces locked by fillGrid before joinAndScorePieces
MaxPool == 3        \* pieces handed to lockPiece / unlockPiece directly
MaxMatchFill == 3   \* pieces locked by fillGrid before matchAtLockedPiece
MaxSeeds == 2       \* length of the seed list handed to joinAndScorePieces
MaxCompact == 2     \* compactGrid calls in a row
MaxPieceW == 2      \* Piece.size.w of the pieces handed to single calls
MaxPieceH == 1      \* Piece.size.h of the pieces handed to single calls
MaxLocked == 2      \* pieces locked before a single call
MaxCoord == 2       \* |x|, |y| of the points handed to rotatePos
MaxTurns == 12      \* the angles handed to rotatePos, rotateSize: 90 * (-MaxTurns .. MaxTurns)
MaxSide == 3        \* w, h of the sizes handed to rotateSize

Nil == 0

\* F applied to the value of e; e is evaluated once, however often F uses it
Then(e, F(_)) == CHOOSE r \in { F(v) : v \in {e} } : TRUE

gridSize == [w |-> GridW, h |-> GridH]

-----------------------------------------------------------------------------
(* geom.go *)

Pos(x, y) == [x |-> x, y |-> y]
Size(w, h) == [w |-> w, h |-> h]

\* Go's % truncates toward zero
GoMod(a, b) == IF a >= 0 THEN a % b ELSE -((-a) % b)

\* fault model: angles compared without the reduction modulo 360
angleDegExact(ang1, ang2) == ang1 = ang2

\* fault model: no rotation check at all
angleDegAny(ang1, ang2) == TRUE

angleDegEq(ang1, ang2) == GoMod(ang1 - ang2, 360) = 0

\* fault model: the angle is reduced without the offset of 720
rotatePosSigned(pos, angleDeg) ==
    LET d == GoMod(angleDeg, 360) IN
    CASE d = 90  -> Pos(-pos.y, pos.x)
      [] d = 180 -> Pos(-pos.x, -pos.y)
      [] d = 270 -> Pos(pos.y, -pos.x)
      [] OTHER   -> pos

rotatePos(pos, angleDeg) ==
    LET d == GoMod(angleDeg + 720, 360) IN
    CASE d = 90  -> Pos(-pos.y, pos.x)
      [] d = 180 -> Pos(-pos.x, -pos.y)
      [] d = 270 -> Pos(pos.y, -pos.x)
      [] OTHER   -> pos

rotateSize(size, angleDeg) ==
    LET d == GoMod(angleDeg + 720, 360) IN
    IF d = 90 \/ d = 270 THEN Size(size.h, size.w) ELSE size

addPos(left, right) == Pos(left.x + right.x, left.y + right.y)
subPos(left, right) == Pos(left.x - right.x, left.y - right.y)

isWithinBounds(pos, size, boundsMin, boundsMax) ==
    /\ pos.x + size.w <= boundsMax.x
    /\ pos.x >= boundsMin.x
    /\ pos.y + size.h <= boundsMax.y
    /\ pos.y >= boundsMin.y

isOverlap(pos1, size1, pos2, size2) ==
    /\ pos1.x < pos2.x + size2.w
    /\ pos2.x < pos1.x + size1.w
    /\ pos1.y < pos2.y + size2.h
    /\ pos2.y < pos1.y + size1.h

\* Piece.isColliding: piece is the locked piece record, (pos, size) the candidate
isColliding(piece, pos, size) ==
    /\ pos.x < piece.pos.x + size.w
    /\ piece.pos.x < pos.x + piece.size.w
    /\ pos.y < piece.pos.y + size.h
    /\ piece.pos.y < pos.y + piece.size.h

-----------------------------------------------------------------------------
(* Piece types and body catalog (init) *)

allPieces == <<
    [pieceType |-> "Head",          currentRotation |-> 0, size |-> Size(1, 1)],
    [pieceType |-> "Torso",         currentRotation |-> 0, size |-> Size(1, 1)],
    [pieceType |-> "RightBrkTorso", currentRotation |-> 0, size |-> Size(1, 1)],
    [pieceType |-> "LeftBrkTorso",  currentRotation |-> 0, size |-> Size(1, 1)],
    [pieceType |-> "Leg",           currentRotation |-> 0, size |-> Size(1, 1)],
    [pieceType |-> "Bomb",          currentRotation |-> 0, size |-> Size(1, 1)] >>

genericSize == allPieces[1].size

BodyPiece(p, r, t) == [pos |-> p, rotation |-> r, pieceType |-> t]

allBodies == <<
    [name |-> "Asshead", score |-> 500, bodyPieces |-> <<
        BodyPiece(Pos(0, 0), 0, "Head"),
        BodyPiece(Pos(0, genericSize.h), 0, "Leg") >>],
    [name |-> "Fellow", score |-> 1000, bodyPieces |-> <<
        BodyPiece(Pos(0, 0), 0, "Head"),
        BodyPiece(Pos(0, genericSize.h), 0, "Torso"),
        BodyPiece(Pos(0, 2 * genericSize.h), 0, "Leg") >>],
    [name |-> "Killed Bill", score |-> 3000, bodyPieces |-> <<
        BodyPiece(Pos(0, 0), 90, "Head"),
        BodyPiece(Pos(genericSize.h, 0), 0, "RightBrkTorso"),
        BodyPiece(Pos(genericSize.h, genericSize.h), 0, "Leg") >>],
    [name |-> "Failed Yoga", score |-> 3000, bodyPieces |-> <<
        BodyPiece(Pos(0, 0), 0, "LeftBrkTorso"),
        BodyPiece(Pos(genericSize.h, 0), 270, "Head"),
        BodyPiece(Pos(0, genericSize.h), 0, "Leg") >>] >>

\* fault model: no piece is taken for a bomb
isBombNever(piece) == FALSE

isBomb(piece) == piece.pieceType = "Bomb"

\* Body.init: pieceTypeToIdx[t], the indices of the slots of type t, ascending
RECURSIVE idxListFrom(_, _, _)
idxListFrom(body, t, i) ==
    IF i > Len(body.bodyPieces) THEN <<>>
    ELSE (IF body.bodyPieces[i].pieceType = t THEN <<i>> ELSE <<>>)
         \o idxListFrom(body, t, i + 1)

pieceTypeToIdx(body, t) == idxListFrom(body, t, 1)

-----------------------------------------------------------------------------
(* GridComp *)

Cells == (0 .. GridW - 1) \X (0 .. GridH - 1)

EmptyContent == [c \in Cells |-> Nil]

\* NewGridComp / GridComp.reset
NewGridComp(ps) ==
    [pieces |-> ps, lockedPieces |-> <<>>, content |-> EmptyContent, fatal |-> FALSE]

lockedSetOf(g) == { g.lockedPieces[i] : i \in 1 .. Len(g.lockedPieces) }

\* GridComp.getPiece
getPiece(g, p) == g.content[<<p.x, p.y>>]

\* fault model: a canMove that tests the bounds only and ignores lockedPieces
canMoveBoundsOnly(g, id, dx, dy) ==
    LET piece  == g.pieces[id]
        newPos == Pos(piece.pos.x + dx, piece.pos.y + dy)
        size   == rotateSize(piece.size, piece.currentRotation)
    IN  isWithinBounds(newPos, size, Pos(1, 0), Pos(gridSize.w - 1, gridSize.h))

\* GridComp.canMove
canMove(g, id, dx, dy) ==
    LET piece  == g.pieces[id]
        newPos == Pos(piece.pos.x + dx, piece.pos.y + dy)
        size   == rotateSize(piece.size, piece.currentRotation)
    IN  /\ isWithinBounds(newPos, size, Pos(1, 0), Pos(gridSize.w - 1, gridSize.h))
        /\ \A i \in 1 .. Len(g.lockedPieces) :
               ~isColliding(g.pieces[g.lockedPieces[i]], newPos, size)

\* fault model: the search key compares x before y
keyLeqColumnMajor(g, id, i) ==
    LET p == g.pieces[id].pos
        q == g.pieces[g.lockedPieces[i + 1]].pos
    IN  p.x < q.x \/ (p.x = q.x /\ p.y <= q.y)

\* the predicate of the sort.Search calls of lockPiece / unlockPiece, i 0-based
keyLeq(g, id, i) ==
    LET p == g.pieces[id].pos
        q == g.pieces[g.lockedPieces[i + 1]].pos
    IN  p.y < q.y \/ (p.y = q.y /\ p.x <= q.x)

\* sort.Search(n, f): binary search on [i, j)
RECURSIVE sortSearch(_, _, _, _)
sortSearch(g, id, i, j) ==
    IF i < j
    THEN LET h == (i + j) \div 2 IN
         IF ~keyLeq(g, id, h) THEN sortSearch(g, id, h + 1, j)
                              ELSE sortSearch(g, id, i, h)
    ELSE i

footprint(piece) ==
    LET rotatedSize == rotateSize(piece.size, piece.currentRotation) IN
    { <<x, y>> \in (piece.pos.x .. piece.pos.x + rotatedSize.w - 1)
               \X (piece.pos.y .. piece.pos.y + rotatedSize.h - 1) : TRUE }

\* changePieceInGrid; an index outside the matrix is a run-time panic
changePieceInGrid(gr, id, add) == Then(gr, LAMBDA g :
    LET cells == footprint(g.pieces[id]) IN
    IF cells \subseteq Cells
    THEN [g EXCEPT !.content =
              [c \in Cells |-> IF c \in cells
                               THEN (IF add THEN id ELSE Nil)
                               ELSE g.content[c]]]
    ELSE [g EXCEPT !.fatal = TRUE])

InsertAt(s, i, e) == SubSeq(s, 1, i) \o <<e>> \o SubSeq(s, i + 1, Len(s))
RemoveAt(s, i) == SubSeq(s, 1, i) \o SubSeq(s, i + 2, Len(s))

\* fault model: a lockPiece that inserts without looking for the piece
lockPieceUnchecked(gr, id) == Then(gr, LAMBDA g :
    IF g.fatal THEN g
    ELSE Then(sortSearch(g, id, 0, Len(g.lockedPieces)), LAMBDA idx :
         changePieceInGrid(
             [g EXCEPT !.lockedPieces = InsertAt(g.lockedPieces, idx, id)],
             id, TRUE)))

\* GridComp.lockPiece
lockPiece(gr, id) == Then(gr, LAMBDA g :
    IF g.fatal THEN g
    ELSE LET n == Len(g.lockedPieces) IN
         Then(sortSearch(g, id, 0, n), LAMBDA idx :
         IF idx < n /\ g.lockedPieces[idx + 1] = id
         THEN [g EXCEPT !.fatal = TRUE]
         ELSE changePieceInGrid(
                  [g EXCEPT !.lockedPieces = InsertAt(g.lockedPieces, idx, id)],
                  id, TRUE)))

\* fault model: an unlockPiece that leaves the occupancy matrix as it is
unlockPieceKeepCells(gr, id) == Then(gr, LAMBDA g :
    IF g.fatal THEN g
    ELSE IF id = Nil THEN [g EXCEPT !.fatal = TRUE]
    ELSE LET n == Len(g.lockedPieces) IN
         Then(sortSearch(g, id, 0, n), LAMBDA idx :
         IF idx = n \/ g.lockedPieces[idx + 1] # id
         THEN [g EXCEPT !.fatal = TRUE]
         ELSE [g EXCEPT !.lockedPieces = RemoveAt(g.lockedPieces, idx)]))

\* fault model: an unlockPiece that removes the entry the search stops at
\* without comparing it with the piece
unlockPieceAtKey(gr, id) == Then(gr, LAMBDA g :
    IF g.fatal THEN g
    ELSE IF id = Nil THEN [g EXCEPT !.fatal = TRUE]
    ELSE Then(sortSearch(g, id, 0, Len(g.lockedPieces)), LAMBDA idx :
         changePieceInGrid(
             [g EXCEPT !.lockedPieces = RemoveAt(g.lockedPieces, idx)],
             id, FALSE)))

\* GridComp.unlockPiece
unlockPiece(gr, id) == Then(gr, LAMBDA g :
    IF g.fatal THEN g
    ELSE IF id = Nil THEN [g EXCEPT !.fatal = TRUE]
    ELSE LET n == Len(g.lockedPieces) IN
         Then(sortSearch(g, id, 0, n), LAMBDA idx :
         IF idx = n \/ g.lockedPieces[idx + 1] # id
         THEN [g EXCEPT !.fatal = TRUE]
         ELSE changePieceInGrid(
                  [g EXCEPT !.lockedPieces = RemoveAt(g.lockedPieces, idx)],
                  id, FALSE)))

-----------------------------------------------------------------------------
(* body.go: matching *)

\* fault model: the template is never turned, whatever the seed's rotation
RECURSIVE matchSlotsUnturned(_, _, _, _, _)
matchSlotsUnturned(g, body, bodyPiece, lockedId, i) ==
    IF i > Len(body.bodyPieces) THEN <<>>
    ELSE
    LET lockedPiece    == g.pieces[lockedId]
        bodyCsRotation == 0
        bp             == body.bodyPieces[i]
        relPosGridCs   == rotatePos(subPos(bp.pos, bodyPiece.pos), bodyCsRotation)
        posGridCs      == addPos(lockedPiece.pos, relPosGridCs)
    IN  IF ~isOverlap(posGridCs, Size(1, 1), Pos(0, 0), gridSize) THEN <<>>
        ELSE LET id == getPiece(g, posGridCs) IN
             IF id = Nil THEN <<>>
             ELSE IF g.pieces[id].pieceType # bp.pieceType THEN <<>>
             ELSE IF g.pieces[id].pos # posGridCs THEN <<>>
             ELSE IF ~angleDegEq(g.pieces[id].currentRotation,
                                 bp.rotation - bodyCsRotation) THEN <<>>
             ELSE IF i = Len(body.bodyPieces) THEN <<id>>
             ELSE LET rest == matchSlotsUnturned(g, body, bodyPiece, lockedId, i + 1) IN
                  IF rest = <<>> THEN <<>> ELSE <<id>> \o rest

\* one iteration per slot bp of body.bodyPieces, from slot i on; <<>> is nil
RECURSIVE matchSlotsFrom(_, _, _, _, _)
matchSlotsFrom(g, body, bodyPiece, lockedId, i) ==
    IF i > Len(body.bodyPieces) THEN <<>>
    ELSE
    LET lockedPiece    == g.pieces[lockedId]
        bodyCsOrigin   == bodyPiece.pos
        bodyCsRotation == bodyPiece.rotation - lockedPiece.currentRotation
        bp             == body.bodyPieces[i]
        relPosBodyCs   == subPos(bp.pos, bodyCsOrigin)
        relPosGridCs   == rotatePos(relPosBodyCs, bodyCsRotation)
        posGridCs      == addPos(lockedPiece.pos, relPosGridCs)
    IN  IF ~isOverlap(posGridCs, Size(1, 1), Pos(0, 0), gridSize) THEN <<>>
        ELSE LET id == getPiece(g, posGridCs) IN
             IF id = Nil THEN <<>>
             ELSE IF g.pieces[id].pieceType # bp.pieceType THEN <<>>
             ELSE IF g.pieces[id].pos # posGridCs THEN <<>>
             ELSE IF ~angleDegEq(g.pieces[id].currentRotation,
                                 bp.rotation - bodyCsRotation) THEN <<>>
             ELSE IF i = Len(body.bodyPieces) THEN <<id>>
             ELSE LET rest == matchSlotsFrom(g, body, bodyPiece, lockedId, i + 1) IN
                  IF rest = <<>> THEN <<>> ELSE <<id>> \o rest

matchBodyPieceAtLockedPiece(g, body, bodyPiece, lockedId) ==
    matchSlotsFrom(g, body, bodyPiece, lockedId, 1)

\* fault model: a body is found only from the piece in its first slot
matchFirstSlotOnly(g, body, lockedId, idxList) ==
    IF idxList = <<>> \/ Head(idxList) # 1 THEN <<>>
    ELSE matchBodyPieceAtLockedPiece(g, body, body.bodyPieces[1], lockedId)

\* the loop over idxList: the first non-empty result is returned
RECURSIVE matchIdxListFrom(_, _, _, _)
matchIdxListFrom(g, body, lockedId, idxList) ==
    IF idxList = <<>> THEN <<>>
    ELSE Then(matchBodyPieceAtLockedPiece(
                  g, body, body.bodyPieces[Head(idxList)], lockedId),
              LAMBDA pieceList :
                 IF 0 < Len(pieceList) THEN pieceList
                 ELSE matchIdxListFrom(g, body, lockedId, Tail(idxList)))

matchAtLockedPiece(g, body, lockedId) ==
    matchIdxListFrom(g, body, lockedId,
                     pieceTypeToIdx(body, g.pieces[lockedId].pieceType))

-----------------------------------------------------------------------------
(* GridComp: removal, compaction, bomb *)

\* fault model: only the first piece of a matched body is removed
removeFirstPiece(gr, pieceList) == Then(gr, LAMBDA g :
    IF pieceList = <<>> \/ g.fatal THEN g
    ELSE unlockPiece(g, getPiece(g, g.pieces[Head(pieceList)].pos)))

\* fault model: the pieces of a matched body are left on the board
removePiecesNothing(gr, pieceList) == gr

\* removePieces: every matched entry is looked up again in the matrix by its
\* position and the piece found there is unlocked
RECURSIVE removePieces(_, _)
removePieces(gr, pieceList) == Then(gr, LAMBDA g :
    IF pieceList = <<>> \/ g.fatal THEN g
    ELSE LET pos   == g.pieces[Head(pieceList)].pos
             piece == getPiece(g, pos)
         IN  removePieces(unlockPiece(g, piece), Tail(pieceList)))

\* the loop over allBodies for one dequeued piece, from body b on
\* r = [g, bodies, matched, seeds]
RECURSIVE joinBodiesFrom(_, _, _)
joinBodiesFrom(rr, piece, b) == Then(rr, LAMBDA r :
    IF b > Len(allBodies) \/ r.g.fatal THEN r
    ELSE Then(matchAtLockedPiece(r.g, allBodies[b], piece), LAMBDA posList :
         IF posList # <<>>
         THEN joinBodiesFrom([g       |-> removePieces(r.g, posList),
                              bodies  |-> Append(r.bodies, b),
                              matched |-> Append(r.matched, posList),
                              seeds   |-> Append(r.seeds, piece)],
                             piece, b + 1)
         ELSE joinBodiesFrom(r, piece, b + 1)))

RECURSIVE joinQueue(_, _)
joinQueue(rr, ps) == Then(rr, LAMBDA r :
    IF ps = <<>> \/ r.g.fatal THEN r
    ELSE LET piece == Head(ps) IN
         IF piece # Nil
         THEN joinQueue(joinBodiesFrom(r, piece, 1), Tail(ps))
         ELSE joinQueue(r, Tail(ps)))

\* fault model: no seed is examined
joinPiecesNothing(g, ps) ==
    [g |-> g, bodies |-> <<>>, matched |-> <<>>, seeds |-> <<>>]

\* joinPieces returns the matched bodies (indices into allBodies); matched
\* lists, per match, the pieces it removed, and seeds the dequeued piece the
\* match was found at
joinPieces(g, ps) ==
    joinQueue([g |-> g, bodies |-> <<>>, matched |-> <<>>, seeds |-> <<>>], ps)

\* fault model: a piece falls by one cell at most
fallOneCell(g, id, dy) == IF canMove(g, id, 0, dy + 1) THEN dy + 1 ELSE dy

\* compactGrid: the loop "for g.canMove(piece, 0, dy+1) { dy++ }"
RECURSIVE fallDy(_, _, _)
fallDy(g, id, dy) ==
    IF canMove(g, id, 0, dy + 1) THEN fallDy(g, id, dy + 1) ELSE dy

\* the loop of compactGrid at 0-based index i; r = [g, fallenPieces]
RECURSIVE compactFrom(_, _)
compactFrom(rr, i) == Then(rr, LAMBDA r :
    IF i < 0 \/ r.g.fatal THEN r
    ELSE LET g     == r.g
             piece == g.lockedPieces[i + 1]
             size  == rotateSize(g.pieces[piece].size,
                                 g.pieces[piece].currentRotation)
         IN  Then(fallDy(g, piece, size.h - 1), LAMBDA dy :
             IF size.h <= dy
             THEN Then(unlockPiece(g, piece), LAMBDA u :
                  LET m == [u EXCEPT !.pieces[piece].pos.y = @ + dy]
                      l == IF u.fatal THEN u ELSE lockPiece(m, piece)
                  IN  compactFrom([g |-> l,
                                   fallenPieces |-> Append(r.fallenPieces, piece)],
                                  i - 1))
             ELSE compactFrom(r, i - 1)))

\* fault model: the pass runs over the list from its first entry (the top of
\* the board) to its last
RECURSIVE compactTopDownFrom(_, _)
compactTopDownFrom(rr, i) == Then(rr, LAMBDA r :
    IF i >= Len(r.g.lockedPieces) \/ r.g.fatal THEN r
    ELSE LET g     == r.g
             piece == g.lockedPieces[i + 1]
             size  == rotateSize(g.pieces[piece].size,
                                 g.pieces[piece].currentRotation)
         IN  Then(fallDy(g, piece, size.h - 1), LAMBDA dy :
             IF size.h <= dy
             THEN Then(unlockPiece(g, piece), LAMBDA u :
                  LET m == [u EXCEPT !.pieces[piece].pos.y = @ + dy]
                      l == IF u.fatal THEN u ELSE lockPiece(m, piece)
                  IN  compactTopDownFrom(
                          [g |-> l,
                           fallenPieces |-> Append(r.fallenPieces, piece)],
                          i + 1))
             ELSE compactTopDownFrom(r, i + 1)))

compactGridTopDown(g) == compactTopDownFrom([g |-> g, fallenPieces |-> <<>>], 0)

\* fault model: no piece falls after a removal
compactGridNothing(g) == [g |-> g, fallenPieces |-> <<>>]

\* GridComp.compactGrid
compactGrid(g) ==
    compactFrom([g |-> g, fallenPieces |-> <<>>], Len(g.lockedPieces) - 1)

\* getPiecesBelow: the loop over i < piece.size.w
RECURSIVE piecesBelowFrom(_, _, _)
piecesBelowFrom(g, below, n) ==
    IF n = 0 THEN <<>>
    ELSE (IF getPiece(g, below) # Nil THEN <<getPiece(g, below)>> ELSE <<>>)
         \o piecesBelowFrom(g, Pos(below.x + 1, below.y), n - 1)

getPiecesBelow(g, id) ==
    LET piece == g.pieces[id]
        below == addPos(piece.pos, Pos(0, 1))
    IN  IF isWithinBounds(below, Size(1, 1), Pos(1, 1),
                          Pos(gridSize.w - 1, gridSize.h - 1))
        THEN piecesBelowFrom(g, below, piece.size.w)
        ELSE <<>>

\* fault model: a drop that moves the piece by one row at most
dropOneRow(gr, id) == Then(gr, LAMBDA g :
    IF canMove(g, id, 0, 1)
    THEN [g EXCEPT !.pieces[id].pos.y = @ + 1]
    ELSE g)

\* GridComp.drop
RECURSIVE drop(_, _)
drop(gr, id) == Then(gr, LAMBDA g :
    IF canMove(g, id, 0, 1)
    THEN drop([g EXCEPT !.pieces[id].pos.y = @ + 1], id)
    ELSE g)

-----------------------------------------------------------------------------
(* Game: cascade *)

RECURSIVE sumScores(_)
sumScores(bodies) ==
    IF bodies = <<>> THEN 0
    ELSE allBodies[Head(bodies)].score + sumScores(Tail(bodies))

\* fault model: the call recurses after every round, matches or not, without
\* compacting
joinRoundAlways(c, ps) ==
    Then(joinPieces(c.g, ps), LAMBDA j :
    [g |-> j.g, score |-> c.score + sumScores(j.bodies), bodies |-> j.bodies,
     matched |-> j.matched, compacted |-> FALSE, recurse |-> ~j.g.fatal,
     fallen |-> <<>>])

\* fault model: the call never recurses
joinRoundOnce(c, ps) ==
    Then(joinPieces(c.g, ps), LAMBDA j :
    LET sc == c.score + sumScores(j.bodies) IN
    IF 0 < Len(j.bodies) /\ ~j.g.fatal
    THEN Then(compactGrid(j.g), LAMBDA k :
         [g |-> k.g, score |-> sc, bodies |-> j.bodies, matched |-> j.matched,
          compacted |-> TRUE, recurse |-> FALSE, fallen |-> k.fallenPieces])
    ELSE [g |-> j.g, score |-> sc, bodies |-> j.bodies, matched |-> j.matched,
          compacted |-> FALSE, recurse |-> FALSE, fallen |-> <<>>])

\* fault model: a round without a match recurses once more, on no seeds
joinRoundEmptyRecurses(c, ps) ==
    Then(joinPieces(c.g, ps), LAMBDA j :
    LET sc == c.score + sumScores(j.bodies) IN
    IF 0 < Len(j.bodies) /\ ~j.g.fatal
    THEN Then(compactGrid(j.g), LAMBDA k :
         [g |-> k.g, score |-> sc, bodies |-> j.bodies, matched |-> j.matched,
          compacted |-> TRUE, recurse |-> ~k.g.fatal, fallen |-> k.fallenPieces])
    ELSE [g |-> j.g, score |-> sc, bodies |-> j.bodies, matched |-> j.matched,
          compacted |-> FALSE, recurse |-> ps # <<>> /\ ~j.g.fatal,
          fallen |-> <<>>])

\* fault model: the grid is compacted after every round, matches or not
joinRoundCompacts(c, ps) ==
    Then(joinPieces(c.g, ps), LAMBDA j :
    LET sc == c.score + sumScores(j.bodies) IN
    IF ~j.g.fatal
    THEN Then(compactGrid(j.g), LAMBDA k :
         [g |-> k.g, score |-> sc, bodies |-> j.bodies, matched |-> j.matched,
          compacted |-> TRUE, recurse |-> 0 < Len(j.bodies) /\ ~k.g.fatal,
          fallen |-> k.fallenPieces])
    ELSE [g |-> j.g, score |-> sc, bodies |-> j.bodies, matched |-> j.matched,
          compacted |-> FALSE, recurse |-> FALSE, fallen |-> <<>>])

\* One activation of joinAndScorePieces up to its recursive call:
\* c = [g, score], ps the seeds.  recurse tells whether the call recurses,
\* fallen is the argument of the recursive call.  compactGrid returns a
\* non-nil slice, so the test "pieces != nil" is always true.
joinRound(c, ps) ==
    Then(joinPieces(c.g, ps), LAMBDA j :
    LET sc == c.score + sumScores(j.bodies) IN
    IF 0 < Len(j.bodies) /\ ~j.g.fatal
    THEN Then(compactGrid(j.g), LAMBDA k :
         [g |-> k.g, score |-> sc, bodies |-> j.bodies, matched |-> j.matched,
          compacted |-> TRUE, recurse |-> ~k.g.fatal, fallen |-> k.fallenPieces])
    ELSE [g |-> j.g, score |-> sc, bodies |-> j.bodies, matched |-> j.matched,
          compacted |-> FALSE, recurse |-> FALSE, fallen |-> <<>>])

\* c.matches and c.fell count, for the observer, the bodies matched and the
\* pieces moved by compaction so far in the outermost call
RECURSIVE joinAndScorePieces(_, _)
joinAndScorePieces(cc, ps) == Then(cc, LAMBDA c :
    Then(joinRound(c, ps), LAMBDA r :
    Then([g |-> r.g, score |-> r.score,
          matches |-> c.matches + Len(r.bodies),
          fell |-> c.fell + Len(r.fallen)], LAMBDA n :
    IF r.recurse THEN joinAndScorePieces(n, r.fallen) ELSE n)))

-----------------------------------------------------------------------------
(* Game.  A game value is                                                  *)
(*   [g, score, activePiece, nextPiece, gameOverState, apcState, nextId,   *)
(*    ev]                                                                  *)
(* PieceComp.p always equals Game.activePiece; ev counts, for the          *)
(* observer, what the current tick did.                                    *)

\* the types and rotation indices generatePiece may draw in the model
SpawnTypes == {"Head", "Leg", "Bomb"}
SpawnRotIdx == 0 .. (IF MaxSpawnRot < 3 THEN MaxSpawnRot ELSE 3)

\* outcome of the random draws of one generatePiece call
Draws == { d \in [idx : 1 .. Len(allPieces), rot : SpawnRotIdx] :
             /\ allPieces[d.idx].pieceType \in SpawnTypes
             /\ isBomb(allPieces[d.idx]) => d.rot = 0 }

canGenerate(gm) == gm.nextId <= MaxSpawn

\* generatePiece: returns the game with the new piece allocated as gm.nextId
generatePiece(game0, d) == Then(game0, LAMBDA gm :
    LET proto    == allPieces[d.idx]
        newPiece == [pieceType       |-> proto.pieceType,
                     size            |-> proto.size,
                     pos             |-> Pos(gridSize.w \div 2, 0),
                     currentRotation |-> IF ~isBomb(proto) THEN d.rot * 90
                                         ELSE proto.currentRotation]
    IN  [gm EXCEPT !.g.pieces = (gm.nextId :> newPiece) @@ @,
                   !.nextId = @ + 1])

\* endGame
endGame(gm) ==
    [gm EXCEPT !.apcState = "StateInactive", !.gameOverState = "StateBlocking",
               !.ev.saved = Append(@, gm.score),
               !.ev.ended = TRUE]

\* what the observer keeps of a resolved landing: gm is the game when
\* spawnNewPiece is entered, n the game when it returns
landing(gm, n) ==
    [atTop         |-> gm.g.pieces[gm.activePiece].pos.y = 0,
     canMoveDown   |-> canMove(gm.g, gm.activePiece, 0, 1),
     gameOverState |-> n.gameOverState,
     apcState      |-> n.apcState,
     score         |-> gm.score,
     saved         |-> SubSeq(n.ev.saved, Len(gm.ev.saved) + 1, Len(n.ev.saved)),
     promoted      |-> n.activePiece = gm.nextPiece,
     generated     |-> n.nextId - gm.nextId,
     handedOver    |-> n.g.pieces[n.activePiece] = gm.g.pieces[gm.nextPiece],
     fresh         |-> /\ n.nextPiece \notin DOMAIN gm.g.pieces
                       /\ n.nextPiece \in DOMAIN n.g.pieces,
     spawnCell     |-> n.g.content[<<gridSize.w \div 2, 0>>]]

\* fault model: the freshly generated piece becomes the active piece and the
\* pre-rolled one stays the next piece
spawnNewPieceSkipsNext(game0, d) == Then(game0, LAMBDA gm :
    IF gm.g.fatal THEN gm
    ELSE Then(IF gm.g.pieces[gm.activePiece].pos.y = 0
                 /\ ~canMove(gm.g, gm.activePiece, 0, 1)
              THEN endGame(gm)
              ELSE Then(generatePiece(gm, d), LAMBDA n :
                   [n EXCEPT !.activePiece = gm.nextId]),
         LAMBDA r : [r EXCEPT !.ev.landings = Append(@, landing(gm, r))]))

\* fault model: a landing never ends the game
spawnNewPieceNeverEnds(game0, d) == Then(game0, LAMBDA gm :
    IF gm.g.fatal THEN gm
    ELSE Then(Then(generatePiece(gm, d), LAMBDA n :
                   [n EXCEPT !.activePiece = gm.nextPiece,
                             !.nextPiece = gm.nextId]),
         LAMBDA r : [r EXCEPT !.ev.landings = Append(@, landing(gm, r))]))

\* fault model: the game ends whenever the landed piece is in row 0
spawnNewPieceEndsAtTop(game0, d) == Then(game0, LAMBDA gm :
    IF gm.g.fatal THEN gm
    ELSE Then(IF gm.g.pieces[gm.activePiece].pos.y = 0
              THEN endGame(gm)
              ELSE Then(generatePiece(gm, d), LAMBDA n :
                   [n EXCEPT !.activePiece = gm.nextPiece,
                             !.nextPiece = gm.nextId]),
         LAMBDA r : [r EXCEPT !.ev.landings = Append(@, landing(gm, r))]))

\* spawnNewPiece
spawnNewPiece(game0, d) == Then(game0, LAMBDA gm :
    IF gm.g.fatal THEN gm
    ELSE Then(IF gm.g.pieces[gm.activePiece].pos.y = 0
                 /\ ~canMove(gm.g, gm.activePiece, 0, 1)
              THEN endGame(gm)
              ELSE Then(generatePiece(gm, d), LAMBDA n :
                   [n EXCEPT !.activePiece = gm.nextPiece,
                             !.nextPiece = gm.nextId]),
         LAMBDA r : [r EXCEPT !.ev.landings = Append(@, landing(gm, r))]))

RECURSIVE unlockAll(_, _)
unlockAll(gr, ps) == Then(gr, LAMBDA g :
    IF ps = <<>> THEN g ELSE unlockAll(unlockPiece(g, Head(ps)), Tail(ps)))

\* what the observer keeps of a bomb landing: the bomb, the locked pieces
\* before and after it, the occupied cells after it and the score on both
\* sides
bombLanding(gm, after, scoreAfter) ==
    [bomb   |-> gm.g.pieces[gm.activePiece],
     before |-> { gm.g.pieces[id] : id \in lockedSetOf(gm.g) },
     after  |-> { after.pieces[id] : id \in lockedSetOf(after) },
     cells  |-> { c \in Cells : after.content[c] # Nil },
     score0 |-> gm.score,
     score1 |-> scoreAfter,
     fatal  |-> after.fatal]

\* fault model: the bomb is locked and scored like any other piece once the
\* pieces beneath it are gone
handleLandedBombLocks(game0, d) == Then(game0, LAMBDA gm :
    IF gm.g.fatal THEN gm
    ELSE Then(IF isBomb(gm.g.pieces[gm.activePiece])
              THEN unlockAll(gm.g, getPiecesBelow(gm.g, gm.activePiece))
              ELSE gm.g, LAMBDA u :
         Then(lockPiece(u, gm.activePiece), LAMBDA l :
         LET c0 == [g |-> l, score |-> gm.score, matches |-> 0, fell |-> 0] IN
         Then(IF l.fatal THEN c0 ELSE joinAndScorePieces(c0, <<gm.activePiece>>),
              LAMBDA r :
                 spawnNewPiece(
                     [gm EXCEPT !.g = r.g, !.score = r.score,
                                !.ev.landed = @ + 1,
                                !.ev.matches = @ + r.matches,
                                !.ev.fell = @ + r.fell,
                                !.ev.bombs =
                                    IF isBomb(gm.g.pieces[gm.activePiece])
                                    THEN Append(@, bombLanding(gm, r.g, r.score))
                                    ELSE @], d)))))

\* handleActivePieceLanded
handleActivePieceLanded(game0, d) == Then(game0, LAMBDA gm :
    IF gm.g.fatal THEN gm
    ELSE IF isBomb(gm.g.pieces[gm.activePiece])
    THEN Then(getPiecesBelow(gm.g, gm.activePiece), LAMBDA piecesBelow :
         Then(unlockAll(gm.g, piecesBelow), LAMBDA u :
         spawnNewPiece(
             [gm EXCEPT !.g = u,
                        !.ev.landed = @ + 1,
                        !.ev.bombed = @ + Len(piecesBelow),
                        !.ev.bombs = Append(@, bombLanding(gm, u, gm.score))],
             d)))
    ELSE Then(lockPiece(gm.g, gm.activePiece), LAMBDA l :
         LET c0 == [g |-> l, score |-> gm.score, matches |-> 0, fell |-> 0] IN
         Then(IF l.fatal THEN c0 ELSE joinAndScorePieces(c0, <<gm.activePiece>>),
              LAMBDA r :
                 spawnNewPiece([gm EXCEPT !.g = r.g, !.score = r.score,
                                          !.ev.landed = @ + 1,
                                          !.ev.matches = @ + r.matches,
                                          !.ev.fell = @ + r.fell], d))))

\* fault model: a piece that can move down stays where it is
moveDownStays(game0, d) == Then(game0, LAMBDA gm :
    IF ~canMove(gm.g, gm.activePiece, 0, 1)
    THEN handleActivePieceLanded(gm, d)
    ELSE gm)

\* moveDown
moveDown(game0, d) == Then(game0, LAMBDA gm :
    IF ~canMove(gm.g, gm.activePiece, 0, 1)
    THEN handleActivePieceLanded(gm, d)
    ELSE [gm EXCEPT !.g.pieces[gm.activePiece].pos.y = @ + 1])

\* dropPiece
dropPiece(game0, d) == Then(game0, LAMBDA gm :
    handleActivePieceLanded([gm EXCEPT !.g = drop(gm.g, gm.activePiece)], d))

\* fault model: the active piece obeys the keys in every state of the
\* component, paused or not
pieceCompUpdateAlways(game0, paused, left, right, rotate) == Then(game0, LAMBDA gm :
    IF gm.activePiece = Nil THEN gm
    ELSE LET a == gm.activePiece IN
         Then(IF left /\ canMove(gm.g, a, -1, 0)
              THEN [gm EXCEPT !.g.pieces[a].pos.x = @ - 1] ELSE gm, LAMBDA m1 :
         Then(IF right /\ canMove(m1.g, a, 1, 0)
              THEN [m1 EXCEPT !.g.pieces[a].pos.x = @ + 1] ELSE m1, LAMBDA m2 :
         IF rotate /\ ~isBomb(m2.g.pieces[a])
         THEN [m2 EXCEPT !.g.pieces[a].currentRotation = (@ + 90) % 360]
         ELSE m2)))

\* PieceComp.update
pieceCompUpdate(game0, paused, left, right, rotate) == Then(game0, LAMBDA gm :
    IF gm.apcState = "StateInactive" \/ paused \/ gm.activePiece = Nil THEN gm
    ELSE LET a == gm.activePiece IN
         Then(IF left /\ canMove(gm.g, a, -1, 0)
              THEN [gm EXCEPT !.g.pieces[a].pos.x = @ - 1] ELSE gm, LAMBDA m1 :
         Then(IF right /\ canMove(m1.g, a, 1, 0)
              THEN [m1 EXCEPT !.g.pieces[a].pos.x = @ + 1] ELSE m1, LAMBDA m2 :
         IF rotate /\ ~isBomb(m2.g.pieces[a])
         THEN [m2 EXCEPT !.g.pieces[a].currentRotation = (@ + 90) % 360]
         ELSE m2)))

\* Game.Reset (with ComponentMgr.reset and GridComp.reset).  No piece allocated
\* before the Reset is referenced after it, so the arena starts afresh.
Reset(gm, d1, d2) ==
    LET cleared == [gm EXCEPT !.g.pieces = <<>>,
                              !.g.lockedPieces = <<>>,
                              !.g.content = EmptyContent,
                              !.gameOverState = "StateInactive",
                              !.apcState = "StateInactive",
                              !.nextId = 1]
    IN  Then(generatePiece(generatePiece(cleared, d1), d2), LAMBDA n :
        [n EXCEPT !.activePiece = 1,
                  !.nextPiece = 2,
                  !.score = 0,
                  !.apcState = "StateActive",
                  !.ev.reset = TRUE])

\* The pieces still referenced at the end of a tick: the locked ones in list
\* order, then the active and the next piece, then any other piece a cell of
\* the occupancy matrix points to.  A piece is known by its
\* address only; collect gives the referenced pieces the addresses 1, 2, ... in
\* this order and frees the others.
liveIds(gm) ==
    LET others == { id \in {gm.activePiece, gm.nextPiece} :
                       id # Nil /\ id \notin lockedSetOf(gm.g) }
        rest   == IF gm.activePiece \in others
                  THEN <<gm.activePiece>>
                       \o (IF gm.nextPiece \in others \ {gm.activePiece}
                           THEN <<gm.nextPiece>> ELSE <<>>)
                  ELSE IF gm.nextPiece \in others THEN <<gm.nextPiece>> ELSE <<>>
        inGrid == { gm.g.content[c] : c \in Cells }
                      \ ({Nil} \cup lockedSetOf(gm.g) \cup others)
        cells  == [k \in 1..Cardinality(inGrid) |->
                      CHOOSE id \in inGrid :
                          Cardinality({ o \in inGrid : o <= id }) = k]
    IN  gm.g.lockedPieces \o rest \o cells

collect(game0) == Then(game0, LAMBDA gm :
    IF gm.g.fatal THEN gm
    ELSE
    LET live   == liveIds(gm)
        new(id) == IF id = Nil THEN Nil
                   ELSE CHOOSE k \in DOMAIN live : live[k] = id
    IN  [gm EXCEPT !.g.pieces = [k \in DOMAIN live |-> gm.g.pieces[live[k]]],
                   !.g.lockedPieces = [k \in DOMAIN @ |-> k],
                   !.g.content = [c \in Cells |-> new(gm.g.content[c])],
                   !.activePiece = new(@),
                   !.nextPiece = new(@)])

-----------------------------------------------------------------------------
(* The game loop *)

NoEvents == [landed |-> 0, matches |-> 0, fell |-> 0, bombed |-> 0,
             bombs |-> <<>>, ended |-> FALSE, reset |-> FALSE,
             landings |-> <<>>, saved |-> <<>>]

game ==
    [g |-> [pieces |-> pieces, lockedPieces |-> lockedPieces,
            content |-> content, fatal |-> fatal],
     score |-> score, activePiece |-> activePiece, nextPiece |-> nextPiece,
     gameOverState |-> gameOverState, apcState |-> apcState, nextId |-> nextId,
     ev |-> NoEvents]

setGame(gm) ==
    /\ pieces' = gm.g.pieces
    /\ lockedPieces' = gm.g.lockedPieces
    /\ content' = gm.g.content
    /\ fatal' = gm.g.fatal
    /\ score' = gm.score
    /\ activePiece' = gm.activePiece
    /\ nextPiece' = gm.nextPiece
    /\ gameOverState' = gm.gameOverState
    /\ apcState' = gm.apcState
    /\ nextId' = gm.nextId

\* ComponentMgr.update: PieceComp.update, then SideBarComp.update, which calls
\* Game.Reset when the restart box is clicked
componentsUpdate(gm, left, right, rotate, restart, d1, d2) ==
    Then(pieceCompUpdate(gm, gm.gameOverState = "StateBlocking",
                         left, right, rotate),
         LAMBDA p : IF restart THEN Reset(p, d1, d2) ELSE p)

\* the part of Update after ComponentMgr.update; timer is the outcome of
\* checkTimeToMoveDown, dropKey that of isKeyPressed("drop")
gameLogic(game0, timer, dropKey, d3, d4) == Then(game0, LAMBDA gm :
    IF gm.gameOverState = "StateInactive"
    THEN Then(IF timer THEN moveDown(gm, d3) ELSE gm, LAMBDA m :
         IF dropKey /\ ~m.g.fatal THEN dropPiece(m, d4) ELSE m)
    ELSE gm)

withinSpawnBound(gm) == gm.nextId <= MaxSpawn + 1

\* NewGame
NewGame(d1, d2) ==
    LET g0 == [g |-> NewGridComp(<<>>), score |-> 0, activePiece |-> Nil,
               nextPiece |-> Nil, gameOverState |-> "StateInactive",
               apcState |-> "StateInactive", nextId |-> 1, ev |-> NoEvents]
    IN  Then(generatePiece(generatePiece(g0, d1), d2), LAMBDA n :
        [n EXCEPT !.activePiece = 1, !.nextPiece = 2, !.apcState = "StateActive"])

Init ==
    /\ \E d1, d2 \in Draws : LET gm == NewGame(d1, d2) IN
          /\ pieces = gm.g.pieces
          /\ lockedPieces = gm.g.lockedPieces
          /\ content = gm.g.content
          /\ fatal = gm.g.fatal
          /\ score = gm.score
          /\ activePiece = gm.activePiece
          /\ nextPiece = gm.nextPiece
          /\ gameOverState = gm.gameOverState
          /\ apcState = gm.apcState
          /\ nextId = gm.nextId
    /\ pc = "game"
    /\ queue = <<>>
    /\ depth = 0
    /\ obs = [op |-> "NewGame", ev |-> NoEvents]

\* The controls of one tick: which of them report "pressed", whether the
\* restart box is clicked and whether the move-down timer fires.  A tick with
\* several controls acts as the ticks with one control each, in the order
\* left, right, rotate, restart, timer, drop, except for timer and drop, which
\* share one test of the game-over dialog; so the model presses at most one
\* control per tick, or the drop key in a tick in which the timer fires.
TickInputs ==
    { in \in [left : BOOLEAN, right : BOOLEAN, rotate : BOOLEAN,
              restart : BOOLEAN, timer : BOOLEAN, dropKey : BOOLEAN] :
        LET n == Cardinality({ f \in {"left", "right", "rotate", "restart",
                                      "timer", "dropKey"} : in[f] })
        IN  n = 1 \/ (n = 2 /\ in.timer /\ in.dropKey) }

landsNow(gm) ==
    /\ gm.gameOverState = "StateInactive"
    /\ ~canMove(gm.g, gm.activePiece, 0, 1)

NoDraw == [idx |-> 1, rot |-> 0]
DrawsIf(needed) == IF needed THEN Draws ELSE {NoDraw}

\* Game.Update: one tick; d1..d4 are the random draws of the generatePiece
\* calls the tick makes
Update ==
    /\ pc = "game"
    /\ ~fatal
    /\ canGenerate(game)
    /\ \E in \in TickInputs :
       \E d1, d2 \in DrawsIf(in.restart) :
       \E s1 \in { game } :
       \E s2 \in { componentsUpdate(s1, in.left, in.right, in.rotate, in.restart,
                                    d1, d2) } :
       \E d3 \in DrawsIf(in.timer /\ landsNow(s2)) :
       \E d4 \in DrawsIf(in.dropKey /\ s2.gameOverState = "StateInactive") :
       \E s4 \in { collect(gameLogic(s2, in.timer, in.dropKey, d3, d4)) } :
          /\ withinSpawnBound(s4)
          /\ setGame(s4)
          /\ obs' = [op |-> "Update", ev |-> s4.ev]
    /\ UNCHANGED <<pc, queue, depth>>

Next == Update

Spec == Init /\ [][Next]_vars

-----------------------------------------------------------------------------
(* The grid driven directly, as TestGridLockUnlockPieces drives it: pieces  *)
(* are locked, unlocked, given another position while unlocked and locked  *)
(* again; compactGrid is called in between.  obs.locked is the set of      *)
(* pieces locked and not unlocked since.                                   *)

seqToSet(q) == { q[i] : i \in 1 .. Len(q) }

grid == [pieces |-> pieces, lockedPieces |-> lockedPieces,
         content |-> content, fatal |-> fatal]

lockedSet == lockedSetOf(grid)

setGrid(g) ==
    /\ pieces' = g.pieces
    /\ lockedPieces' = g.lockedPieces
    /\ content' = g.content
    /\ fatal' = g.fatal

\* the cells fillGrid places pieces on: x from 1 on, every row
FillCells == { c \in Cells : c[1] >= 1 }

withPos(piece, pos) ==
    [pieceType |-> piece.pieceType, currentRotation |-> piece.currentRotation,
     size |-> piece.size, pos |-> pos]

PoolPiece(i) == withPos(allPieces[i], Pos(1, 0))

InitGrid ==
    /\ pieces = [i \in 1 .. MaxPool |-> PoolPiece(i)]
    /\ lockedPieces = <<>>
    /\ content = EmptyContent
    /\ fatal = FALSE
    /\ score = 0
    /\ activePiece = Nil
    /\ nextPiece = Nil
    /\ gameOverState = "StateInactive"
    /\ apcState = "StateInactive"
    /\ nextId = MaxPool + 1
    /\ pc = "grid"
    /\ queue = <<>>
    /\ depth = 0
    /\ obs = [op |-> "GridComp", locked |-> {}]

gameVars == <<score, activePiece, nextPiece, gameOverState, apcState, nextId>>

\* p.pos = ... on a piece the grid does not hold
GridPlace ==
    /\ pc = "grid" /\ ~fatal
    /\ \E id \in DOMAIN pieces \ obs.locked : \E c \in FillCells :
          /\ pieces[id].pos # Pos(c[1], c[2])
          /\ pieces' = [pieces EXCEPT ![id].pos = Pos(c[1], c[2])]
    /\ UNCHANGED <<lockedPieces, content, fatal, gameVars, pc, queue, depth, obs>>

GridLock ==
    /\ pc = "grid" /\ ~fatal
    /\ \E id \in DOMAIN pieces \ obs.locked :
       \E g \in { lockPiece(grid, id) } :
          /\ setGrid(g)
          /\ obs' = [obs EXCEPT !.locked = IF g.fatal THEN @ ELSE @ \cup {id}]
    /\ UNCHANGED <<gameVars, pc, queue, depth>>

GridUnlock ==
    /\ pc = "grid" /\ ~fatal
    /\ \E id \in obs.locked :
       \E g \in { unlockPiece(grid, id) } :
          /\ setGrid(g)
          /\ obs' = [obs EXCEPT !.locked = IF g.fatal THEN @ ELSE @ \ {id}]
    /\ UNCHANGED <<gameVars, pc, queue, depth>>

GridCompact ==
    /\ pc = "grid" /\ ~fatal
    /\ \E k \in { compactGrid(grid) } : setGrid(k.g)
    /\ UNCHANGED <<gameVars, pc, queue, depth, obs>>

NextGrid == GridPlace \/ GridLock \/ GridUnlock \/ GridCompact

SpecGrid == InitGrid /\ [][NextGrid]_vars

-----------------------------------------------------------------------------
(* matchAtLockedPiece called on grids filled as fillGrid fills them: the   *)
(* pieces are locked one by one, row by row from the top, left to right in *)
(* a row.                                                                   *)

Rotations == {0, 90, 180, 270}

\* the start of a run on a grid filled piece by piece
InitFill ==
    /\ pieces = << >>
    /\ lockedPieces = <<>>
    /\ content = EmptyContent
    /\ fatal = FALSE
    /\ score = 0
    /\ activePiece = Nil
    /\ nextPiece = Nil
    /\ gameOverState = "StateInactive"
    /\ apcState = "StateInactive"
    /\ nextId = 1
    /\ pc = "fill"
    /\ queue = <<>>
    /\ depth = 0
    /\ obs = [op |-> "fillGrid"]

\* fillGrid walks the rows downwards and each row rightwards
fillsAfter(c) ==
    IF nextId = 1 THEN TRUE
    ELSE LET last == pieces[nextId - 1].pos
         IN  last.y < c[2] \/ (last.y = c[2] /\ last.x < c[1])

\* one iteration of the loops of fillGrid that places a piece
fillPiece(types, rots, cells) ==
    \E t \in types : \E r \in rots : \E c \in cells :
       /\ fillsAfter(c)
       /\ LET proto == CHOOSE a \in { allPieces[i] : i \in DOMAIN allPieces } :
                           a.pieceType = t
              piece == [pieceType |-> proto.pieceType, size |-> proto.size,
                        currentRotation |-> r, pos |-> Pos(c[1], c[2])]
          IN  \E g \in { lockPiece([grid EXCEPT !.pieces = Append(pieces, piece)],
                                   nextId) } : setGrid(g)
       /\ nextId' = nextId + 1

\* the top row, the leftmost column and the cell completing their 2x2 corner:
\* every body of allBodies fits in every rotation
MatchCells ==
    { c \in FillCells : c[2] = 0 \/ c[1] = 1 \/ (c[1] = 2 /\ c[2] = 1) }

MatchTypes == {"Head", "Torso", "RightBrkTorso", "LeftBrkTorso", "Leg"}

FillMatch ==
    /\ pc = "fill" /\ ~fatal
    /\ nextId <= MaxMatchFill
    /\ fillPiece(MatchTypes, Rotations, MatchCells)
    /\ UNCHANGED <<score, activePiece, nextPiece, gameOverState, apcState,
                   pc, queue, depth, obs>>

\* body.matchAtLockedPiece(grid, lockedPiece) for a body of allBodies and a
\* locked piece
CallMatch ==
    /\ pc = "fill" /\ ~fatal
    /\ \E b \in DOMAIN allBodies : \E p \in lockedSet :
       \E res \in { matchAtLockedPiece(grid, allBodies[b], p) } :
          obs' = [op |-> "matchAtLockedPiece", body |-> b, lockedPiece |-> p,
                  result |-> res]
    /\ pc' = "matched"
    /\ UNCHANGED <<pieces, lockedPieces, content, fatal, gameVars, queue, depth>>

NextMatch == FillMatch \/ CallMatch

SpecMatch == InitFill /\ [][NextMatch]_vars

-----------------------------------------------------------------------------
(* joinAndScorePieces and compactGrid called on grids filled as fillGrid    *)
(* fills them, as TestGameJoinAndScorePieces does.  A call of               *)
(* joinAndScorePieces runs one activation per step: pc = "round" while an   *)
(* activation is pending, queue holds its seeds and depth its nesting.     *)
(* obs keeps what was true when the outermost call started and what the    *)
(* activations did since; obs.compactions counts their compactGrid calls.   *)

CascadeTypes == {"Head", "Leg"}
CascadeRotations == {0, 90}

\* the columns canMove lets a piece be in
CascadeCells == { c \in Cells : 1 <= c[1] /\ c[1] + genericSize.w <= gridSize.w - 1 }

FillCascade ==
    /\ pc = "fill" /\ ~fatal
    /\ nextId <= MaxFill
    /\ fillPiece(CascadeTypes, CascadeRotations, CascadeCells)
    /\ UNCHANGED <<score, activePiece, nextPiece, gameOverState, apcState,
                   pc, queue, depth, obs>>

\* the seed lists: different locked pieces, in any order
SeedLists ==
    { q \in UNION { [1 .. n -> lockedSet] : n \in 1 .. MaxSeeds } :
         \A i, j \in DOMAIN q : i # j => q[i] # q[j] }

\* game.joinAndScorePieces(seeds): the outermost activation is entered
CallJoinAndScore ==
    /\ pc = "fill" /\ ~fatal
    /\ \E seeds \in SeedLists : queue' = seeds
    /\ pc' = "round"
    /\ depth' = 1
    /\ obs' = [op |-> "joinAndScorePieces", score0 |-> score,
               locked0 |-> lockedSet, matches |-> <<>>, fell |-> {},
               lastBodies |-> 0, compactions |-> 0]
    /\ UNCHANGED <<pieces, lockedPieces, content, fatal, gameVars>>

\* one activation of joinAndScorePieces: joinPieces, the score, compactGrid,
\* and either the recursive call or the return of the whole chain
JoinRound ==
    /\ pc = "round"
    /\ \E r \in { joinRound([g |-> grid, score |-> score], queue) } :
          /\ setGrid(r.g)
          /\ score' = r.score
          /\ obs' = [obs EXCEPT
                       !.matches = @ \o [k \in DOMAIN r.bodies |->
                                           [body |-> r.bodies[k], depth |-> depth,
                                            pieces |-> r.matched[k]]],
                       !.fell = @ \cup seqToSet(r.fallen),
                       !.lastBodies = Len(r.bodies),
                       !.compactions = IF r.compacted THEN @ + 1 ELSE @]
          /\ IF r.recurse
             THEN pc' = "round" /\ queue' = r.fallen /\ depth' = depth + 1
             ELSE pc' = "returned" /\ queue' = <<>> /\ depth' = depth
    /\ UNCHANGED <<activePiece, nextPiece, gameOverState, apcState, nextId>>

\* grid.compactGrid(), on the filled grid or right after another compactGrid
CallCompact ==
    /\ pc \in {"fill", "compacted"} /\ ~fatal
    /\ pc = "compacted" => obs.calls < MaxCompact
    /\ \E k \in { compactGrid(grid) } :
          /\ setGrid(k.g)
          /\ obs' = [op |-> "compactGrid", fallen |-> k.fallenPieces,
                     before |-> pieces, lockedBefore |-> lockedPieces,
                     fallenBefore |-> IF pc = "compacted" THEN obs.fallen ELSE <<>>,
                     calls |-> IF pc = "compacted" THEN obs.calls + 1 ELSE 1]
    /\ pc' = "compacted"
    /\ UNCHANGED <<gameVars, queue, depth>>

NextCascade == FillCascade \/ CallJoinAndScore \/ JoinRound \/ CallCompact

SpecCascade == InitFill /\ [][NextCascade]_vars

-----------------------------------------------------------------------------
(* Single calls of canMove, drop, lockPiece and unlockPiece.  Pieces of the *)
(* sizes Piece.size admits are locked side by side inside the bounds of     *)
(* canMove; then a further piece is made, locked or not, and one call is    *)
(* made on any of the pieces.  obs keeps the call, its result and the grid  *)
(* it found.                                                                *)

CallSizes == { Size(w, h) : w \in 1 .. MaxPieceW, h \in 1 .. MaxPieceH }
CallRotations == {0, 90}
CallMoves == { <<dx, dy>> \in (-1 .. 1) \X (0 .. 1) : TRUE }

\* a Piece value as the tests build one
newPiece(size, rot, c) ==
    [pieceType |-> "Head", size |-> size, currentRotation |-> rot,
     pos |-> Pos(c[1], c[2])]

\* the piece lies inside the bounds of canMove and on free cells
placeable(piece) ==
    /\ isWithinBounds(piece.pos, rotateSize(piece.size, piece.currentRotation),
                      Pos(1, 0), Pos(gridSize.w - 1, gridSize.h))
    /\ \A c \in footprint(piece) : content[c] = Nil

InitCalls ==
    /\ pieces = << >>
    /\ lockedPieces = <<>>
    /\ content = EmptyContent
    /\ fatal = FALSE
    /\ score = 0
    /\ activePiece = Nil
    /\ nextPiece = Nil
    /\ gameOverState = "StateInactive"
    /\ apcState = "StateInactive"
    /\ nextId = 1
    /\ pc = "place"
    /\ queue = <<>>
    /\ depth = 0
    /\ obs = [op |-> "Piece"]

\* grid.lockPiece(piece) on a new piece, top to bottom and left to right
CallsPlace ==
    /\ pc = "place" /\ ~fatal
    /\ nextId <= MaxLocked
    /\ \E size \in CallSizes : \E rot \in CallRotations : \E c \in Cells :
       \E piece \in { newPiece(size, rot, c) } :
          /\ fillsAfter(c)
          /\ placeable(piece)
          /\ \E g \in { lockPiece([grid EXCEPT !.pieces = Append(pieces, piece)],
                                   nextId) } : setGrid(g)
    /\ nextId' = nextId + 1
    /\ UNCHANGED <<score, activePiece, nextPiece, gameOverState, apcState,
                   pc, queue, depth, obs>>

\* a piece the grid does not hold, anywhere on the matrix
CallsSubject ==
    /\ pc = "place" /\ ~fatal
    /\ \E size \in CallSizes : \E rot \in CallRotations : \E c \in Cells :
          pieces' = Append(pieces, newPiece(size, rot, c))
    /\ nextId' = nextId + 1
    /\ pc' = "subject"
    /\ UNCHANGED <<lockedPieces, content, fatal, score, activePiece, nextPiece,
                   gameOverState, apcState, queue, depth, obs>>

called(op, id, res) ==
    [op |-> op, piece |-> id, result |-> res, before |-> pieces,
     lockedBefore |-> lockedPieces, contentBefore |-> content]

\* grid.canMove(piece, dx, dy)
CallCanMove ==
    /\ pc = "subject"
    /\ \E id \in DOMAIN pieces : \E m \in CallMoves :
       \E res \in { canMove(grid, id, m[1], m[2]) } :
          obs' = called("canMove", id, res) @@ [dx |-> m[1], dy |-> m[2]]
    /\ pc' = "called"
    /\ UNCHANGED <<pieces, lockedPieces, content, fatal, gameVars, queue, depth>>

\* grid.drop(piece)
CallDrop ==
    /\ pc = "subject"
    /\ \E id \in DOMAIN pieces : \E g \in { drop(grid, id) } :
          /\ setGrid(g)
          /\ obs' = called("drop", id, TRUE)
    /\ pc' = "called"
    /\ UNCHANGED <<gameVars, queue, depth>>

\* grid.lockPiece(piece), the piece locked already or placeable
CallLock ==
    /\ pc = "subject"
    /\ \E id \in DOMAIN pieces :
          /\ id \in lockedSet \/ placeable(pieces[id])
          /\ \E g \in { lockPiece(grid, id) } :
                /\ setGrid(g)
                /\ obs' = called("lockPiece", id, ~g.fatal)
    /\ pc' = "called"
    /\ UNCHANGED <<gameVars, queue, depth>>

\* grid.unlockPiece(piece)
CallUnlock ==
    /\ pc = "subject"
    /\ \E id \in DOMAIN pieces : \E g \in { unlockPiece(grid, id) } :
          /\ setGrid(g)
          /\ obs' = called("unlockPiece", id, ~g.fatal)
    /\ pc' = "called"
    /\ UNCHANGED <<gameVars, queue, depth>>

NextCalls ==
    CallsPlace \/ CallsSubject \/ CallCanMove \/ CallDrop \/ CallLock \/ CallUnlock

SpecCalls == InitCalls /\ [][NextCalls]_vars

-----------------------------------------------------------------------------
(* Calls of rotatePos and rotateSize.  obs keeps the arguments and the      *)
(* result of the last call.                                                 *)

Points == { Pos(x, y) : x \in -MaxCoord .. MaxCoord, y \in -MaxCoord .. MaxCoord }
Angles == { 90 * k : k \in -MaxTurns .. MaxTurns }
Sizes == { Size(w, h) : w \in 1 .. MaxSide, h \in 1 .. MaxSide }

InitGeom ==
    /\ pieces = << >>
    /\ lockedPieces = <<>>
    /\ content = EmptyContent
    /\ fatal = FALSE
    /\ score = 0
    /\ activePiece = Nil
    /\ nextPiece = Nil
    /\ gameOverState = "StateInactive"
    /\ apcState = "StateInactive"
    /\ nextId = 1
    /\ pc = "geom"
    /\ queue = <<>>
    /\ depth = 0
    /\ obs = [op |-> "geom"]

gridVars == <<pieces, lockedPieces, content, fatal>>

\* rotatePos(pos, angleDeg)
CallRotatePos ==
    /\ \E p \in Points : \E a \in Angles :
          obs' = [op |-> "rotatePos", pos |-> p, angleDeg |-> a,
                  result |-> rotatePos(p, a)]
    /\ UNCHANGED <<gridVars, gameVars, pc, queue, depth>>

\* rotateSize(size, angleDeg)
CallRotateSize ==
    /\ \E z \in Sizes : \E a \in Angles :
          obs' = [op |-> "rotateSize", size |-> z, angleDeg |-> a,
                  result |-> rotateSize(z, a)]
    /\ UNCHANGED <<gridVars, gameVars, pc, queue, depth>>

\* rotatePos(rotatePos(pos, angleDeg), -angleDeg)
CallRotateBack ==
    /\ \E p \in Points : \E a \in Rotations :
       \E mid \in { rotatePos(p, a) } :
          obs' = [op |-> "rotateBack", pos |-> p, angleDeg |-> a, mid |-> mid,
                  result |-> rotatePos(mid, -a)]
    /\ UNCHANGED <<gridVars, gameVars, pc, queue, depth>>

\* rotateSize with 90 applied four times in a row
CallFourTurns ==
    /\ \E z \in Sizes :
          obs' = [op |-> "fourTurns", size |-> z, mid |-> rotateSize(z, 90),
                  result |-> rotateSize(rotateSize(rotateSize(rotateSize(
                                 z, 90), 90), 90), 90)]
    /\ UNCHANGED <<gridVars, gameVars, pc, queue, depth>>

NextGeom == CallRotatePos \/ CallRotateSize \/ CallRotateBack \/ CallFourTurns

SpecGeom == InitGeom /\ [][NextGeom]_vars

-----------------------------------------------------------------------------
(* The catalog at start-up: NewGame initialises every body of the catalog,  *)
(* ebiten then runs Update and Draw in turns.  The catalog under load is    *)
(* obs.bodies; it is drawn from the catalog of the program and from small   *)
(* catalogs whose templates may name a piece type allPieces does not have.  *)

CatalogTypes == {"Head", "Leg", "Tail"}

TemplateBodies ==
    { [name |-> "Template", score |-> 500, bodyPieces |-> <<
          BodyPiece(Pos(0, 0), 0, t1),
          BodyPiece(Pos(0, genericSize.h), 0, t2) >>] :
      t1 \in CatalogTypes, t2 \in CatalogTypes }

Catalogs ==
    {allBodies} \cup { <<b>> : b \in TemplateBodies }
                \cup { <<b1, b2>> : b1 \in TemplateBodies, b2 \in TemplateBodies }

\* slices.IndexFunc(allPieces, ...) of getPieceByType, 0-based, -1 if absent
pieceIndexOf(t) ==
    IF \E i \in 1 .. Len(allPieces) : allPieces[i].pieceType = t
    THEN (CHOOSE i \in 1 .. Len(allPieces) :
              /\ allPieces[i].pieceType = t
              /\ \A j \in 1 .. i - 1 : allPieces[j].pieceType # t) - 1
    ELSE -1

\* getPieceByType indexes allPieces with that index: out of range, it panics
getPieceByTypePanics(t) == pieceIndexOf(t) < 0 \/ pieceIndexOf(t) >= Len(allPieces)

\* Body.init of every body of the catalog: the map pieceType -> slot indices
bodiesInit(bodies) ==
    [b \in 1 .. Len(bodies) |->
        [t \in { bodies[b].bodyPieces[i].pieceType :
                     i \in 1 .. Len(bodies[b].bodyPieces) } |->
            pieceTypeToIdx(bodies[b], t)]]

\* SideBarComp.drawSidebar: every body's hint asks getPieceByType for the
\* type of every body piece (Body.getBoundingBox, drawSidebarHint)
drawSidebarPanics(bodies) ==
    \E b \in 1 .. Len(bodies) : \E i \in 1 .. Len(bodies[b].bodyPieces) :
        getPieceByTypePanics(bodies[b].bodyPieces[i].pieceType)

InitCatalog ==
    /\ pieces = << >>
    /\ lockedPieces = <<>>
    /\ content = EmptyContent
    /\ fatal = FALSE
    /\ score = 0
    /\ activePiece = Nil
    /\ nextPiece = Nil
    /\ gameOverState = "StateInactive"
    /\ apcState = "StateInactive"
    /\ nextId = 1
    /\ pc = "config"
    /\ queue = <<>>
    /\ depth = 0
    /\ \E bodies \in Catalogs : obs = [op |-> "config", bodies |-> bodies]

\* NewGame with the catalog obs.bodies
CatalogNewGame ==
    /\ pc = "config"
    /\ \E d1, d2 \in Draws : setGame(NewGame(d1, d2))
    /\ pc' = "loaded"
    /\ obs' = [op |-> "NewGame", bodies |-> obs.bodies,
               pieceTypeToIdx |-> bodiesInit(obs.bodies)]
    /\ UNCHANGED <<queue, depth>>

\* the first Update of the run: no key is down, the timer may fire
CatalogUpdate ==
    /\ pc = "loaded"
    /\ \E timer \in BOOLEAN :
       \E s2 \in { componentsUpdate(game, FALSE, FALSE, FALSE, FALSE,
                                    NoDraw, NoDraw) } :
          setGame(gameLogic(s2, timer, FALSE, NoDraw, NoDraw))
    /\ pc' = "ticked"
    /\ obs' = [obs EXCEPT !.op = "Update"]
    /\ UNCHANGED <<queue, depth>>

\* the first Draw of the run: the side bar draws the hint of every body
CatalogDraw ==
    /\ pc = "ticked"
    /\ fatal' = drawSidebarPanics(obs.bodies)
    /\ pc' = "drawn"
    /\ obs' = [obs EXCEPT !.op = "Draw"]
    /\ UNCHANGED <<pieces, lockedPieces, content, gameVars, queue, depth>>

NextCatalog == CatalogNewGame \/ CatalogUpdate \/ CatalogDraw

SpecCatalog == InitCatalog /\ [][NextCatalog]_vars

-----------------------------------------------------------------------------
(* generatePiece called on a fresh Game, as NewGame and                     *)
(* TestGameGeneratePiece call it.  obs holds the fields of Game the grid    *)
(* play does not read: spawnProb and spawnStat, maps from piece type to     *)
(* weight and to count.  The float32 weights are multiples of 1/8 and are   *)
(* kept as integers, in eighths; the random number is a multiple of 1/8     *)
(* too, so it falls on the bounds between two types and strictly between    *)
(* them.  Subtracting a weight from a larger float32 of this range is       *)
(* exact, and from a smaller one gives a negative number whatever the       *)
(* rounding, so the integers decide the loop as the float32 values do.      *)

ProbUnit == 8

PieceTypes == { allPieces[i].pieceType : i \in 1 .. Len(allPieces) }

\* spawnProb as NewGame sets it
spawnProbOfNewGame ==
    ("Torso" :> ProbUnit \div 2) @@ ("RightBrkTorso" :> ProbUnit \div 2)
        @@ ("LeftBrkTorso" :> ProbUnit \div 2)
        @@ ("Bomb" :> (3 * ProbUnit) \div 4)

NoStat == [t \in {} |-> 0]

\* the weight maps of the model: that of NewGame, no override at all, and
\* one that overrides the first type and gives the last type no weight
SpawnProbs ==
    { spawnProbOfNewGame, NoStat,
      ("Head" :> ProbUnit \div 4) @@ ("Bomb" :> 0) }

\* a Go map read: the zero value for a missing key
mapGet(m, t) == IF t \in DOMAIN m THEN m[t] ELSE 0

\* generatePiece, first loop: a type without weight gets the weight 1
spawnProbDefaults(spawnProb) ==
    [t \in PieceTypes \cup DOMAIN spawnProb |->
        IF t \in DOMAIN spawnProb THEN spawnProb[t] ELSE ProbUnit]

RECURSIVE randRangeFrom(_, _)
randRangeFrom(spawnProb, i) ==
    IF i > Len(allPieces) THEN 0
    ELSE spawnProbDefaults(spawnProb)[allPieces[i].pieceType]
             + randRangeFrom(spawnProb, i + 1)

\* generatePiece: randRange
randRange(spawnProb) == randRangeFrom(spawnProb, 1)

\* rand.Float32() * randRange: a number of [0, randRange)
RandNums(spawnProb) == 0 .. randRange(spawnProb) - 1

\* fault model: the selection loop goes on while randNum is positive
RECURSIVE selectWhilePositive(_, _, _)
selectWhilePositive(spawnProb, newPieceIdx, randNum) ==
    IF newPieceIdx + 1 < Len(allPieces) /\ 0 < randNum
    THEN selectWhilePositive(spawnProb, newPieceIdx + 1,
             randNum - mapGet(spawnProb, allPieces[newPieceIdx + 2].pieceType))
    ELSE newPieceIdx

\* generatePiece, second loop, entered with newPieceIdx = -1: the 0-based
\* index of the selected type
RECURSIVE selectPieceIdx(_, _, _)
selectPieceIdx(spawnProb, newPieceIdx, randNum) ==
    IF newPieceIdx + 1 < Len(allPieces) /\ 0 <= randNum
    THEN selectPieceIdx(spawnProb, newPieceIdx + 1,
             randNum - mapGet(spawnProb, allPieces[newPieceIdx + 2].pieceType))
    ELSE newPieceIdx

\* fault model: the statistics count the call under the first type
spawnStatCountFirst(spawnStat, t) ==
    [u \in DOMAIN spawnStat \cup {allPieces[1].pieceType} |->
        IF u = allPieces[1].pieceType THEN mapGet(spawnStat, u) + 1
        ELSE spawnStat[u]]

\* generatePiece: update statistics
spawnStatCount(spawnStat, t) ==
    [u \in DOMAIN spawnStat \cup {t} |->
        IF u = t THEN mapGet(spawnStat, t) + 1 ELSE spawnStat[u]]

MaxGenerate == 2

InitSpawn ==
    /\ pieces = << >>
    /\ lockedPieces = <<>>
    /\ content = EmptyContent
    /\ fatal = FALSE
    /\ score = 0
    /\ activePiece = Nil
    /\ nextPiece = Nil
    /\ gameOverState = "StateInactive"
    /\ apcState = "StateInactive"
    /\ nextId = 1
    /\ pc = "spawn"
    /\ queue = <<>>
    /\ depth = 0
    /\ \E p \in SpawnProbs :
          obs = [op |-> "Game", spawnProb |-> p, spawnStat |-> NoStat,
                 calls |-> 0]

\* Game.generatePiece: the returned piece is pieces[nextId]
CallGeneratePiece ==
    /\ pc = "spawn"
    /\ obs.calls < MaxGenerate
    /\ \E prob \in { spawnProbDefaults(obs.spawnProb) } :
       \E randNum \in RandNums(obs.spawnProb) : \E rot \in 0 .. 3 :
       \E newPieceIdx \in { selectPieceIdx(prob, -1, randNum) } :
          IF newPieceIdx < 0
          THEN /\ fatal' = TRUE
               /\ obs' = [obs EXCEPT !.op = "panic", !.spawnProb = prob]
               /\ UNCHANGED <<pieces, nextId>>
          ELSE /\ \E n \in { generatePiece(game, [idx |-> newPieceIdx + 1,
                                                  rot |-> rot]) } :
                      /\ pieces' = n.g.pieces
                      /\ nextId' = n.nextId
               /\ fatal' = fatal
               /\ obs' = [op |-> "generatePiece",
                          spawnProb |-> prob,
                          spawnStat |-> spawnStatCount(obs.spawnStat,
                                            allPieces[newPieceIdx + 1].pieceType),
                          calls |-> obs.calls + 1,
                          probBefore |-> obs.spawnProb,
                          statBefore |-> obs.spawnStat,
                          randNum |-> randNum,
                          newPieceIdx |-> newPieceIdx,
                          piece |-> nextId]
    /\ UNCHANGED <<lockedPieces, content, score, activePiece, nextPiece,
                   gameOverState, apcState, pc, queue, depth>>

\* the statistics are read, as TestGameGeneratePiece reads them
CallSpawnStat ==
    /\ pc = "spawn"
    /\ obs.op = "generatePiece"
    /\ obs' = [op |-> "spawnStat", spawnProb |-> obs.spawnProb,
               spawnStat |-> obs.spawnStat, calls |-> obs.calls]
    /\ UNCHANGED <<gridVars, gameVars, pc, queue, depth>>

NextSpawn == CallGeneratePiece \/ CallSpawnStat

SpecSpawn == InitSpawn /\ [][NextSpawn]_vars

-----------------------------------------------------------------------------
(* A session of the game with its statistics and its clock.  obs.stats      *)
(* holds spawnStat, frameCount, dropFrameCount, gameTimeSec (in ticks of    *)
(* 1 / ticksPerSec) and speedLevelIdx.  The keys of a tick are speedup      *)
(* and drop, the restart box may be clicked; the timer fires when           *)
(* checkTimeToMoveDown says so.                                             *)

ticksPerSec == 60

speedLevels == <<
    [ticksPerDrop |-> 30, nextLevelTimeSec |-> 30],
    [ticksPerDrop |-> 26, nextLevelTimeSec |-> 60],
    [ticksPerDrop |-> 22, nextLevelTimeSec |-> 90],
    [ticksPerDrop |-> 19, nextLevelTimeSec |-> 120],
    [ticksPerDrop |-> 16, nextLevelTimeSec |-> 150],
    [ticksPerDrop |-> 13, nextLevelTimeSec |-> 180],
    [ticksPerDrop |-> 11, nextLevelTimeSec |-> 210],
    [ticksPerDrop |-> 9,  nextLevelTimeSec |-> 240],
    [ticksPerDrop |-> 7,  nextLevelTimeSec |-> 270],
    [ticksPerDrop |-> 6,  nextLevelTimeSec |-> 300] >>

MaxFrames == 4

\* the statistics and the clock of a new Game
NewStats ==
    [spawnStat |-> NoStat, frameCount |-> 0, dropFrameCount |-> 0,
     gameTimeSec |-> 0, speedLevelIdx |-> 0]

\* the spawnStat update of the generatePiece call that drew d
countSpawn(stats, d) ==
    [stats EXCEPT !.spawnStat = spawnStatCount(@, allPieces[d.idx].pieceType)]

\* Game.Reset on the statistics and the clock: the two generatePiece calls of
\* Reset come before spawnStat is replaced by an empty map
resetStats(stats, d1, d2) ==
    [countSpawn(countSpawn(stats, d1), d2)
        EXCEPT !.frameCount = 0, !.dropFrameCount = 0, !.gameTimeSec = 0,
               !.speedLevelIdx = 0, !.spawnStat = NoStat]

\* Game.speedup
speedup(stats, pressed) ==
    IF pressed /\ stats.speedLevelIdx + 1 < Len(speedLevels)
    THEN [stats EXCEPT !.speedLevelIdx = @ + 1]
    ELSE stats

\* Game.checkTimeToMoveDown: the statistics after the call and its result
checkTimeToMoveDown(stats) ==
    LET speedLevel == speedLevels[stats.speedLevelIdx + 1]
        counted    == [stats EXCEPT !.dropFrameCount = @ + 1]
    IN  IF speedLevel.ticksPerDrop <= counted.dropFrameCount
        THEN [stats |-> [counted EXCEPT
                 !.dropFrameCount = 0,
                 !.speedLevelIdx =
                     IF /\ stats.speedLevelIdx + 1 < Len(speedLevels)
                        /\ speedLevel.nextLevelTimeSec * ticksPerSec
                               < stats.gameTimeSec
                     THEN @ + 1 ELSE @],
              result |-> TRUE]
        ELSE [stats |-> counted, result |-> FALSE]

InitSession ==
    /\ \E d1, d2 \in Draws : LET gm == NewGame(d1, d2) IN
          /\ pieces = gm.g.pieces
          /\ lockedPieces = gm.g.lockedPieces
          /\ content = gm.g.content
          /\ fatal = gm.g.fatal
          /\ score = gm.score
          /\ activePiece = gm.activePiece
          /\ nextPiece = gm.nextPiece
          /\ gameOverState = gm.gameOverState
          /\ apcState = gm.apcState
          /\ nextId = gm.nextId
          /\ obs = [op |-> "NewGame",
                    stats |-> countSpawn(countSpawn(NewStats, d1), d2)]
    /\ pc = "session"
    /\ queue = <<>>
    /\ depth = 0

\* what the observer keeps of the Game when Reset returns
afterReset(gm, stats) ==
    [score |-> gm.score, lockedPieces |-> gm.g.lockedPieces,
     content |-> gm.g.content, gameOverState |-> gm.gameOverState,
     apcState |-> gm.apcState, stats |-> stats,
     active |-> gm.g.pieces[gm.activePiece],
     next |-> gm.g.pieces[gm.nextPiece]]

\* the controls of one tick of a session: the speed-up key, the drop key and
\* the restart box in any combination; in a tick that starts with the
\* game-over dialog up and does not restart, the left, right and rotate keys
\* in any combination too (in the other ticks the active piece stays in the
\* column and the rotation it was spawned in)
SessionInputs ==
    { in \in [speedup : BOOLEAN, dropKey : BOOLEAN, restart : BOOLEAN,
              left : BOOLEAN, right : BOOLEAN, rotate : BOOLEAN] :
        (gameOverState = "StateInactive" \/ in.restart)
            => ~in.left /\ ~in.right /\ ~in.rotate }

\* Game.Update with the statistics and the clock
SessionUpdate ==
    /\ pc = "session"
    /\ ~fatal
    /\ canGenerate(game)
    /\ obs.stats.frameCount < MaxFrames
    /\ \E in \in SessionInputs :
       \E d1, d2 \in DrawsIf(in.restart) :
       \E t1 \in { [obs.stats EXCEPT !.frameCount = @ + 1,
                                     !.gameTimeSec = @ + 1] } :
       \E s2 \in { componentsUpdate(game, in.left, in.right, in.rotate,
                                    in.restart, d1, d2) } :
       \E t2 \in { IF in.restart THEN resetStats(t1, d1, d2) ELSE t1 } :
       \E running \in { s2.gameOverState = "StateInactive" } :
       \E c \in { IF running THEN checkTimeToMoveDown(speedup(t2, in.speedup))
                  ELSE [stats |-> t2, result |-> FALSE] } :
       \E d3 \in DrawsIf(c.result /\ landsNow(s2)) :
       \E s3 \in { IF c.result THEN moveDown(s2, d3) ELSE s2 } :
       \E t3 \in { IF s3.nextId > s2.nextId THEN countSpawn(c.stats, d3)
                   ELSE c.stats } :
       \E d4 \in DrawsIf(running /\ in.dropKey) :
       \E s4 \in { IF running /\ in.dropKey /\ ~s3.g.fatal
                   THEN dropPiece(s3, d4) ELSE s3 } :
       \E t4 \in { IF s4.nextId > s3.nextId THEN countSpawn(t3, d4) ELSE t3 } :
       \E s5 \in { collect(s4) } :
          /\ withinSpawnBound(s5)
          /\ setGame(s5)
          /\ obs' = [op |-> "Update", stats |-> t4, restart |-> in.restart,
                     reset |-> IF in.restart THEN <<afterReset(s2, t2)>>
                               ELSE <<>>,
                     wasOver |-> gameOverState = "StateBlocking",
                     pressed |-> Cardinality({ k \in DOMAIN in : in[k] })]
    /\ UNCHANGED <<pc, queue, depth>>

NextSession == SessionUpdate

SpecSession == InitSession /\ [][NextSession]_vars

-----------------------------------------------------------------------------
(* The high-score file.  obs.file is the content of highscore.txt, a         *)
(* sequence of characters (a missing file reads as the empty one);          *)
(* obs.saved lists the scores handed to saveScore so far.                   *)

DigitChars == <<"0", "1", "2", "3", "4", "5", "6", "7", "8", "9">>

\* fmt.Sprintf("%d", n)
RECURSIVE itoa(_)
itoa(n) ==
    IF n < 0 THEN <<"-">> \o itoa(-n)
    ELSE IF n < 10 THEN <<DigitChars[n + 1]>>
    ELSE itoa(n \div 10) \o <<DigitChars[(n % 10) + 1]>>

isDigit(ch) == \E d \in 1 .. Len(DigitChars) : DigitChars[d] = ch

RECURSIVE digitsValue(_, _)
digitsValue(str, acc) ==
    IF str = <<>> THEN acc
    ELSE digitsValue(Tail(str),
             10 * acc + (CHOOSE d \in 0 .. 9 : DigitChars[d + 1] = Head(str)))

\* strconv.Atoi: an optional sign, then one digit or more
atoi(str) ==
    LET signed == str # <<>> /\ Head(str) \in {"+", "-"}
        digits == IF signed THEN Tail(str) ELSE str
    IN  IF digits = <<>> \/ \E i \in 1 .. Len(digits) : ~isDigit(digits[i])
        THEN [ok |-> FALSE, value |-> 0]
        ELSE [ok |-> TRUE,
              value |-> IF signed /\ Head(str) = "-"
                        THEN -digitsValue(digits, 0)
                        ELSE digitsValue(digits, 0)]

\* strings.Split(data, "\n"): line is the part of the current line read so far
RECURSIVE splitLines(_, _)
splitLines(data, line) ==
    IF data = <<>> THEN <<line>>
    ELSE IF Head(data) = "\n" THEN <<line>> \o splitLines(Tail(data), <<>>)
    ELSE splitLines(Tail(data), Append(line, Head(data)))

RECURSIVE parseScores(_)
parseScores(scoreStrings) ==
    IF scoreStrings = <<>> THEN <<>>
    ELSE LET parsed == atoi(Head(scoreStrings)) IN
         (IF Head(scoreStrings) # <<>> /\ parsed.ok THEN <<parsed.value>>
          ELSE <<>>)
             \o parseScores(Tail(scoreStrings))

\* readScoresFromFile
readScoresFromFile(file) == parseScores(splitLines(file, <<>>))

\* v put into the descending sequence sorted
RECURSIVE insertDesc(_, _)
insertDesc(sorted, v) ==
    IF sorted = <<>> THEN <<v>>
    ELSE IF v >= Head(sorted) THEN <<v>> \o sorted
    ELSE <<Head(sorted)>> \o insertDesc(Tail(sorted), v)

\* sort.Sort(sort.Reverse(sort.IntSlice(scores)))
RECURSIVE sortReverse(_)
sortReverse(scores) ==
    IF scores = <<>> THEN <<>>
    ELSE insertDesc(sortReverse(Tail(scores)), Head(scores))

\* fault model: the first five scores of the file, as they were saved
loadTopScoresUnsorted(file) ==
    LET scores == readScoresFromFile(file)
    IN  IF Len(scores) > 5 THEN SubSeq(scores, 1, 5) ELSE scores

\* Game.loadTopScores
loadTopScores(file) ==
    LET scores == sortReverse(readScoresFromFile(file))
    IN  IF Len(scores) > 5 THEN SubSeq(scores, 1, 5) ELSE scores

\* Game.saveScore
saveScore(file, s) == file \o itoa(s) \o <<"\n">>

RECURSIVE highScoreFrom(_, _)
highScoreFrom(scores, highScore) ==
    IF scores = <<>> THEN highScore
    ELSE highScoreFrom(Tail(scores),
             IF Head(scores) > highScore THEN Head(scores) ELSE highScore)

\* Game.loadHighScore
loadHighScore(file) == highScoreFrom(readScoresFromFile(file), 0)

\* the scores a game can end with, and how many of them are saved
ScoreValues == {0, 250, 500, 3000}
MaxSaves == 6

InitScores ==
    /\ pieces = << >>
    /\ lockedPieces = <<>>
    /\ content = EmptyContent
    /\ fatal = FALSE
    /\ score = 0
    /\ activePiece = Nil
    /\ nextPiece = Nil
    /\ gameOverState = "StateInactive"
    /\ apcState = "StateInactive"
    /\ nextId = 1
    /\ pc = "scores"
    /\ queue = <<>>
    /\ depth = 0
    /\ obs = [op |-> "Remove", file |-> <<>>, saved |-> <<>>]

\* Game.saveScore(s), with loadHighScore before and after it
CallSaveScore ==
    /\ pc = "scores"
    /\ Len(obs.saved) < MaxSaves
    /\ \E s \in ScoreValues : \E file \in { saveScore(obs.file, s) } :
          obs' = [op |-> "saveScore", file |-> file,
                  saved |-> Append(obs.saved, s), score |-> s,
                  highBefore |-> loadHighScore(obs.file),
                  highScore |-> loadHighScore(file)]
    /\ UNCHANGED <<gridVars, gameVars, pc, queue, depth>>

\* Game.loadTopScores, as Update calls it for the side bar
CallLoadTopScores ==
    /\ pc = "scores"
    /\ obs.op # "loadTopScores"
    /\ obs' = [op |-> "loadTopScores", file |-> obs.file, saved |-> obs.saved,
               highScore |-> loadHighScore(obs.file),
               topScores |-> loadTopScores(obs.file)]
    /\ UNCHANGED <<gridVars, gameVars, pc, queue, depth>>

NextScores == CallSaveScore \/ CallLoadTopScores

SpecScores == InitScores /\ [][NextScores]_vars

-----------------------------------------------------------------------------
(* joinPieces called on grids filled as fillGrid fills them, with the       *)
(* piece types of the bodies "Asshead" and "Killed Bill"; the seeds are     *)
(* locked pieces, as the landed piece and the fallen pieces are.            *)

JoinTypes == {"Head", "Leg", "RightBrkTorso"}

\* the two lowest rows of the columns canMove lets a piece be in
JoinCells == { c \in CascadeCells : c[2] >= gridSize.h - 2 }

FillJoin ==
    /\ pc = "fill" /\ ~fatal
    /\ nextId <= MaxFill
    /\ fillPiece(JoinTypes, CascadeRotations, JoinCells)
    /\ UNCHANGED <<score, activePiece, nextPiece, gameOverState, apcState,
                   pc, queue, depth, obs>>

\* grid.joinPieces(seeds): one pass over the work queue
CallJoinPieces ==
    /\ pc = "fill" /\ ~fatal
    /\ \E seeds \in SeedLists : \E r \in { joinPieces(grid, seeds) } :
          /\ setGrid(r.g)
          /\ obs' = [op |-> "joinPieces", pieces |-> seeds,
                     lockedBefore |-> lockedSet, bodies |-> r.bodies,
                     matched |-> r.matched, seeds |-> r.seeds]
    /\ pc' = "joined"
    /\ UNCHANGED <<gameVars, queue, depth>>

NextJoin == FillJoin \/ CallJoinPieces

SpecJoin == InitFill /\ [][NextJoin]_vars

-----------------------------------------------------------------------------
(* Long cascades.  joinAndScorePieces is called on grids of heads and legs  *)
(* lying on their side, locked by lockPiece on any cell of the occupancy    *)
(* matrix (lockPiece tests no bounds; in the columns canMove does not       *)
(* admit a piece never falls), with the piece locked last as the seed, as   *)
(* when a piece has landed.  The activations are those of JoinRound.        *)

MaxDeepFill == 8

DeepTypes == {"Head", "Leg"}
DeepRotations == {90}

FillDeep ==
    /\ pc = "fill" /\ ~fatal
    /\ nextId <= MaxDeepFill
    /\ fillPiece(DeepTypes, DeepRotations, Cells)
    /\ UNCHANGED <<score, activePiece, nextPiece, gameOverState, apcState,
                   pc, queue, depth, obs>>

\* game.joinAndScorePieces([]*Piece{piece}) for the piece locked last
CallJoinAndScoreLast ==
    /\ pc = "fill" /\ ~fatal
    /\ lockedPieces # <<>>
    /\ queue' = <<nextId - 1>>
    /\ pc' = "round"
    /\ depth' = 1
    /\ obs' = [op |-> "joinAndScorePieces", score0 |-> score,
               locked0 |-> lockedSet, matches |-> <<>>, fell |-> {},
               lastBodies |-> 0, compactions |-> 0]
    /\ UNCHANGED <<pieces, lockedPieces, content, fatal, gameVars>>

NextDeep == FillDeep \/ CallJoinAndScoreLast \/ JoinRound

SpecDeep == InitFill /\ [][NextDeep]_vars

-----------------------------------------------------------------------------
(* Timed move-downs counted.  The game loop with the left, right and drop   *)
(* keys and the move-down timer; obs.moves counts the timed move-downs the  *)
(* active piece has gone through since it became the active piece, and      *)
(* obs.landedAfter holds, for a landing that a timed move-down of this tick *)
(* triggered, the number of timed move-downs that piece had, the last one   *)
(* included.                                                                *)

TimedInputs ==
    { in \in TickInputs : ~in.rotate /\ ~in.restart }

InitTimed ==
    /\ \E d1, d2 \in Draws : LET gm == NewGame(d1, d2) IN
          /\ pieces = gm.g.pieces
          /\ lockedPieces = gm.g.lockedPieces
          /\ content = gm.g.content
          /\ fatal = gm.g.fatal
          /\ score = gm.score
          /\ activePiece = gm.activePiece
          /\ nextPiece = gm.nextPiece
          /\ gameOverState = gm.gameOverState
          /\ apcState = gm.apcState
          /\ nextId = gm.nextId
    /\ pc = "timed"
    /\ queue = <<>>
    /\ depth = 0
    /\ obs = [op |-> "NewGame", ev |-> NoEvents, timer |-> FALSE, moves |-> 0,
              landedAfter |-> <<>>]

\* Game.Update: one tick
TimedUpdate ==
    /\ pc = "timed"
    /\ ~fatal
    /\ canGenerate(game)
    /\ \E in \in TimedInputs :
       \E s1 \in { game } :
       \E s2 \in { componentsUpdate(s1, in.left, in.right, FALSE, FALSE,
                                    NoDraw, NoDraw) } :
       \E timed \in { in.timer /\ s2.gameOverState = "StateInactive" } :
       \E d3 \in DrawsIf(in.timer /\ landsNow(s2)) :
       \E d4 \in DrawsIf(in.dropKey /\ s2.gameOverState = "StateInactive") :
       \E s4 \in { collect(gameLogic(s2, in.timer, in.dropKey, d3, d4)) } :
          /\ withinSpawnBound(s4)
          /\ setGame(s4)
          /\ obs' = [op |-> "Update", ev |-> s4.ev, timer |-> timed,
                     moves |-> IF s4.ev.landed > 0 THEN 0
                               ELSE IF timed THEN obs.moves + 1 ELSE obs.moves,
                     landedAfter |-> IF timed /\ landsNow(s2)
                                     THEN <<obs.moves + 1>> ELSE <<>>]
    /\ UNCHANGED <<pc, queue, depth>>

NextTimed == TimedUpdate

SpecTimed == InitTimed /\ [][NextTimed]_vars

-----------------------------------------------------------------------------
(* UserInput.  The game loop driven by the keyboard and the mouse: a tick   *)
(* reads which keys and buttons are down (obs.down, what                    *)
(* ebiten.IsKeyPressed and ebiten.IsMouseButtonPressed answer), updates the *)
(* control states and acts on the controls that report "pressed".  From one *)
(* tick to the next at most one key or button goes down or up; the          *)
(* move-down timer does not come due and the cursor is on the restart box.  *)
(* obs.held counts, per control, the consecutive ticks it has been down.    *)

\* the key lists NewGame hands to NewUserInput
keyDesc ==
    [rotate  |-> <<"KeyEnter", "KeyNumpad8">>,
     left    |-> <<"KeyArrowLeft", "KeyNumpad7">>,
     right   |-> <<"KeyArrowRight", "KeyNumpad9">>,
     drop    |-> <<"KeyArrowDown", "KeyNumpad5", "KeySpace">>,
     speedup |-> <<"KeyS">>]

\* the keys and the button the model's player uses
InputKeys ==
    {"KeyEnter", "KeyArrowLeft", "KeyNumpad7", "KeyArrowRight", "KeyArrowDown",
     "KeyS", "MouseButtonLeft"}

MaxInputTicks == 4

\* a ControlState of NewUserInput
NewControlState == [down |-> FALSE, press |-> FALSE, release |-> FALSE]

\* fault model: a control reports "pressed" as long as it is down
updateControlStateLevel(isControlDown, state) ==
    [press   |-> isControlDown,
     release |-> ~isControlDown /\ state.down,
     down    |-> isControlDown]

\* UserInput.updateControlState
updateControlState(isControlDown, state) ==
    [press   |-> isControlDown /\ ~state.down,
     release |-> ~isControlDown /\ state.down,
     down    |-> isControlDown]

\* UserInput.handleKeyPress: the control is down when one of its keys is
handleKeyPress(keys, state, down) ==
    updateControlState(\E i \in DOMAIN keys : keys[i] \in down, state)

\* UserInput.handleKeys
handleKeys(keyState, down) ==
    [keyName \in DOMAIN keyDesc |->
        handleKeyPress(keyDesc[keyName], keyState[keyName], down)]

\* UserInput.handleMouse, the left button
handleMouse(mouseLeftState, down) ==
    updateControlState("MouseButtonLeft" \in down, mouseLeftState)

\* UserInput.isKeyPressed
isKeyPressed(keyState, keyName) ==
    IF keyName \in DOMAIN keyState THEN keyState[keyName].press ELSE FALSE

\* UserInput.isMouseLeftClick
isMouseLeftClick(mouseLeftState) == mouseLeftState.press

\* the controls: the named key lists and the left mouse button
Controls == DOMAIN keyDesc \cup {"mouse"}

controlDown(c, down) ==
    IF c = "mouse" THEN "MouseButtonLeft" \in down
    ELSE \E i \in DOMAIN keyDesc[c] : keyDesc[c][i] \in down

InitInput ==
    /\ \E d1, d2 \in Draws : LET gm == NewGame(d1, d2) IN
          /\ pieces = gm.g.pieces
          /\ lockedPieces = gm.g.lockedPieces
          /\ content = gm.g.content
          /\ fatal = gm.g.fatal
          /\ score = gm.score
          /\ activePiece = gm.activePiece
          /\ nextPiece = gm.nextPiece
          /\ gameOverState = gm.gameOverState
          /\ apcState = gm.apcState
          /\ nextId = gm.nextId
    /\ pc = "input"
    /\ queue = <<>>
    /\ depth = 0
    /\ obs = [op |-> "NewGame", ev |-> NoEvents, down |-> {},
              keyState |-> [keyName \in DOMAIN keyDesc |-> NewControlState],
              mouseLeftState |-> NewControlState,
              held |-> [c \in Controls |-> 0],
              speedLevelIdx |-> 0, ticks |-> 0]

\* Game.Update: one tick
InputUpdate ==
    /\ pc = "input"
    /\ ~fatal
    /\ canGenerate(game)
    /\ obs.ticks < MaxInputTicks
    /\ \E down \in { obs.down } \cup { obs.down \cup {k} : k \in InputKeys }
                       \cup { obs.down \ {k} : k \in InputKeys } :
       \E keyState \in { handleKeys(obs.keyState, down) } :
       \E mouseLeftState \in { handleMouse(obs.mouseLeftState, down) } :
       \E restart \in { isMouseLeftClick(mouseLeftState) } :
       \E d1, d2 \in DrawsIf(restart) :
       \E s2 \in { componentsUpdate(game, isKeyPressed(keyState, "left"),
                                    isKeyPressed(keyState, "right"),
                                    isKeyPressed(keyState, "rotate"),
                                    restart, d1, d2) } :
       \E running \in { s2.gameOverState = "StateInactive" } :
       \E level \in { IF restart THEN 0 ELSE obs.speedLevelIdx } :
       \E stats \in { IF running
                      THEN speedup([speedLevelIdx |-> level],
                                   isKeyPressed(keyState, "speedup"))
                      ELSE [speedLevelIdx |-> level] } :
       \E dropKey \in { isKeyPressed(keyState, "drop") } :
       \E d4 \in DrawsIf(dropKey /\ running) :
       \E s4 \in { collect(gameLogic(s2, FALSE, dropKey, NoDraw, d4)) } :
          /\ withinSpawnBound(s4)
          /\ setGame(s4)
          /\ obs' = [op |-> "Update", ev |-> s4.ev, down |-> down,
                     keyState |-> keyState,
                     mouseLeftState |-> mouseLeftState,
                     held |-> [c \in Controls |->
                                  IF controlDown(c, down) THEN obs.held[c] + 1
                                  ELSE 0],
                     speedLevelIdx |-> stats.speedLevelIdx,
                     ticks |-> obs.ticks + 1]
    /\ UNCHANGED <<pc, queue, depth>>

NextInput == InputUpdate

SpecInput == InitInput /\ [][NextInput]_vars

-----------------------------------------------------------------------------
(* Properties of the grid in game play *)

\* C1: occupancy consistency.  Every cell of the rotated footprint of every
\* piece of lockedPieces refers to that piece in the occupancy matrix, and every
\* non-empty cell of the matrix refers to a piece that is in lockedPieces and
\* whose footprint covers the cell.
OccupancyConsistent ==
    /\ \A id \in lockedSet :
          \A c \in footprint(pieces[id]) : c \in Cells /\ content[c] = id
    /\ \A c \in Cells :
          content[c] # Nil =>
             /\ content[c] \in lockedSet
             /\ c \in footprint(pieces[content[c]])

\* a tick in which a body was removed and compaction moved a piece, with
\* pieces still locked afterwards
OccupancyWitness ==
    /\ obs.op = "Update"
    /\ obs.ev.matches > 0
    /\ obs.ev.fell > 0
    /\ lockedPieces # <<>>

\* the sort key of lockedPieces: row first, then column
keyOrdered(p, q) == p.y < q.y \/ (p.y = q.y /\ p.x <= q.x)

\* C2: after any sequence of lockPiece, unlockPiece and compactGrid calls in
\* which a piece changes position only while unlocked, lockedPieces holds
\* exactly the pieces locked and not unlocked since, each once, in non-decreasing
\* (y, x) order.
LockedListExactAndSorted ==
    obs.op = "GridComp" =>
       /\ lockedSet = obs.locked
       /\ Len(lockedPieces) = Cardinality(obs.locked)
       /\ \A i, j \in 1 .. Len(lockedPieces) :
              i < j => keyOrdered(pieces[lockedPieces[i]].pos,
                                  pieces[lockedPieces[j]].pos)

\* all pieces of the pool are locked, on three different rows or columns, after
\* one of them was unlocked and locked again
LockedListWitness ==
    /\ obs.op = "GridComp"
    /\ ~fatal
    /\ Cardinality(obs.locked) = MaxPool
    /\ \A i, j \in DOMAIN pieces : i # j => pieces[i].pos # pieces[j].pos
    /\ pieces[lockedPieces[1]].pos.y < pieces[lockedPieces[Len(lockedPieces)]].pos.y
    /\ lockedPieces[1] # 1

\* C3: no two pieces of lockedPieces have overlapping rotated footprints
NoOverlap ==
    \A i, j \in 1 .. Len(lockedPieces) :
       i # j =>
          LET p == pieces[lockedPieces[i]]
              q == pieces[lockedPieces[j]]
          IN  ~isOverlap(p.pos, rotateSize(p.size, p.currentRotation),
                         q.pos, rotateSize(q.size, q.currentRotation))

\* three pieces locked by landings, the last of them next to another one
NoOverlapWitness ==
    /\ obs.op = "Update"
    /\ obs.ev.landed > 0
    /\ Len(lockedPieces) >= 3

-----------------------------------------------------------------------------
(* Properties of matchAtLockedPiece.  They are stated on the state after a *)
(* call: obs holds the body, the seed and the result, the grid is the one   *)
(* the call ran on.                                                         *)

matchCalled == obs.op = "matchAtLockedPiece"

\* the grid cell of slot u when slot s of the body lies on piece p, the body
\* turned by r = s.rotation - p.rotation
slotCell(p, s, u) ==
    addPos(p.pos, rotatePos(subPos(u.pos, s.pos), s.rotation - p.currentRotation))

\* the locked piece that fills slot u at cell c under body rotation r, or Nil
slotPiece(u, c, r) ==
    IF <<c.x, c.y>> \notin Cells THEN Nil
    ELSE LET id == content[<<c.x, c.y>>] IN
         IF /\ id # Nil
            /\ id \in lockedSet
            /\ pieces[id].pieceType = u.pieceType
            /\ pieces[id].pos = c
            /\ (pieces[id].currentRotation - (u.rotation - r)) % 360 = 0
         THEN id ELSE Nil

\* the slots of body b a piece p can lie on
seedSlots(b, p) ==
    { i \in DOMAIN b.bodyPieces : b.bodyPieces[i].pieceType = p.pieceType }

\* the pieces filling the slots of b when slot i lies on p, in slot order
slotPieces(b, p, i) ==
    LET s == b.bodyPieces[i] IN
    [k \in DOMAIN b.bodyPieces |->
        slotPiece(b.bodyPieces[k], slotCell(p, s, b.bodyPieces[k]),
                  s.rotation - p.currentRotation)]

complete(b, p, i) == \A k \in DOMAIN b.bodyPieces : slotPieces(b, p, i)[k] # Nil

\* C4: match completeness.  If a slot s of the body has the type of the seed
\* p and, with r = s.rotation - p.rotation, every slot u has at cell
\* p.pos + rotatePos(u.pos - s.pos, r) a locked piece of u's type, lying on that
\* cell, with rotation u.rotation - r modulo 360, then matchAtLockedPiece
\* returns exactly the set of those pieces.
MatchComplete ==
    matchCalled =>
       LET b == allBodies[obs.body]
           p == pieces[obs.lockedPiece]
       IN  \A i \in seedSlots(b, p) :
              complete(b, p, i) =>
                 seqToSet(obs.result) = seqToSet(slotPieces(b, p, i))

\* Head, Torso and Leg stacked at rotation 0, matched as Fellow from the Head
MatchCompleteWitness ==
    /\ matchCalled
    /\ allBodies[obs.body].name = "Fellow"
    /\ pieces[obs.lockedPiece].pieceType = "Head"
    /\ pieces[obs.lockedPiece].currentRotation = 0
    /\ complete(allBodies[obs.body], pieces[obs.lockedPiece], 1)
    /\ Len(obs.result) = 3

\* C5: no partial match.  A non-empty result holds exactly one locked piece
\* per slot of the body, all different, each of the slot's type, lying on the
\* slot's transformed cell with the slot's rotation adjusted by the body
\* rotation; and when, for every slot the seed can lie on, some slot's cell is
\* outside the grid, empty or holds a piece of another type, position or
\* rotation, the result is empty.
NoPartialMatch ==
    matchCalled =>
       LET b == allBodies[obs.body]
           p == pieces[obs.lockedPiece]
           res == obs.result
       IN  /\ res # <<>> =>
                /\ Len(res) = Len(b.bodyPieces)
                /\ \A k, l \in DOMAIN res : k # l => res[k] # res[l]
                /\ \E i \in seedSlots(b, p) :
                      /\ complete(b, p, i)
                      /\ res = slotPieces(b, p, i)
           /\ (\A i \in seedSlots(b, p) : ~complete(b, p, i)) => res = <<>>

\* a body short of one piece only because of that piece's rotation: two of
\* three slots are filled, the third cell holds the right type turned wrongly
NoPartialMatchWitness ==
    /\ matchCalled
    /\ obs.result = <<>>
    /\ Len(lockedPieces) = 3
    /\ LET b == allBodies[obs.body]
           p == pieces[obs.lockedPiece]
       IN  \E i \in seedSlots(b, p) :
              /\ Cardinality({ k \in DOMAIN b.bodyPieces :
                                  slotPieces(b, p, i)[k] # Nil }) = 2
              /\ \E k \in DOMAIN b.bodyPieces :
                    LET c == slotCell(p, b.bodyPieces[i], b.bodyPieces[k]) IN
                    /\ <<c.x, c.y>> \in Cells
                    /\ content[<<c.x, c.y>>] # Nil
                    /\ pieces[content[<<c.x, c.y>>]].pieceType
                          = b.bodyPieces[k].pieceType
                    /\ slotPieces(b, p, i)[k] = Nil

\* the locked piece of type ty at cell c with rotation rot modulo 360, or Nil
pieceAt(c, ty, rot) ==
    IF <<c.x, c.y>> \notin Cells THEN Nil
    ELSE LET id == content[<<c.x, c.y>>] IN
         IF /\ id # Nil
            /\ id \in lockedSet
            /\ pieces[id].pieceType = ty
            /\ pieces[id].pos = c
            /\ (pieces[id].currentRotation - rot) % 360 = 0
         THEN id ELSE Nil

\* the template of b laid out around anchor slot a, turned by t, a on cell c0
laidOut(b, a, t, c0) ==
    [k \in DOMAIN b.bodyPieces |->
        LET u == b.bodyPieces[k] IN
        pieceAt(addPos(c0, rotatePos(subPos(u.pos, b.bodyPieces[a].pos), -t)),
                u.pieceType, u.rotation + t)]

\* C6: rotation-invariant match.  For every angle t of {0, 90, 180, 270}, when
\* the pieces around the seed are laid out as the template of the body with
\* every rotation equal to slot.rotation + t (mod 360) and relative positions
\* rotatePos(slot.pos - anchorSlot.pos, -t), the seed lying on the anchor slot,
\* matchAtLockedPiece returns those pieces, slot by slot as for t = 0.
MatchRotationInvariant ==
    matchCalled =>
       LET b == allBodies[obs.body]
           p == pieces[obs.lockedPiece]
       IN  \A t \in Rotations : \A a \in DOMAIN b.bodyPieces :
              LET group == laidOut(b, a, t, p.pos) IN
              (/\ group[a] = obs.lockedPiece
               /\ \A k \in DOMAIN group : group[k] # Nil)
                 => obs.result = group

\* Head, Torso and Leg side by side in a row, all at rotation 90, matched as
\* Fellow from the Head
MatchRotationWitness ==
    /\ matchCalled
    /\ allBodies[obs.body].name = "Fellow"
    /\ LET p == pieces[obs.lockedPiece] IN
          /\ p.pieceType = "Head"
          /\ p.currentRotation = 90
          /\ laidOut(allBodies[obs.body], 1, 90, p.pos) = obs.result
          /\ Len(obs.result) = 3
          /\ \A k \in 1 .. 3 : /\ pieces[obs.result[k]].pos.y = p.pos.y
                               /\ pieces[obs.result[k]].pos.x = p.pos.x + k - 1

-----------------------------------------------------------------------------
(* Properties of the cascade *)

returned == pc = "returned" /\ obs.op = "joinAndScorePieces"

RECURSIVE sumOver(_, _, _)
sumOver(f(_), q, i) == IF i > Len(q) THEN 0 ELSE f(q[i]) + sumOver(f, q, i + 1)

matchScore(m) == allBodies[m.body].score
matchSize(m) == Len(allBodies[m.body].bodyPieces)

matchedPieces == UNION { seqToSet(obs.matches[k].pieces) : k \in DOMAIN obs.matches }

\* C7: cascade accounting.  When joinAndScorePieces returns, the score has
\* grown by the sum of body.score over all matches of the call, recursive
\* rounds included, the number of locked pieces has shrunk by the number of
\* pieces of the matched bodies, and every piece that was in no matched body is
\* still locked.
CascadeAccounting ==
    returned =>
       /\ score = obs.score0 + sumOver(matchScore, obs.matches, 1)
       /\ Len(lockedPieces)
             = Cardinality(obs.locked0) - sumOver(matchSize, obs.matches, 1)
       /\ \A p \in obs.locked0 \ matchedPieces : p \in lockedSet

\* a call that matched in two rounds and leaves a piece locked
CascadeAccountingWitness ==
    /\ returned
    /\ Len(obs.matches) >= 1
    /\ obs.fell # {}
    /\ lockedPieces # <<>>
    /\ obs.locked0 \ matchedPieces # {}

\* piece p is part of a complete body of allBodies
inCompleteBody(p) ==
    \E b \in DOMAIN allBodies : \E i \in seedSlots(allBodies[b], pieces[p]) :
       complete(allBodies[b], pieces[p], i)

\* C8: cascade re-matching.  Every piece that compaction let fall during the
\* call was a seed of the next round, so when the call returns no fallen piece
\* is part of a complete body, and the last round matched nothing.
CascadeRematch ==
    returned =>
       /\ \A p \in obs.fell \cap lockedSet : ~inCompleteBody(p)
       /\ obs.lastBodies = 0

\* a body completed by a fall was matched in the second round
CascadeRematchWitness ==
    /\ returned
    /\ \E k \in DOMAIN obs.matches :
          /\ obs.matches[k].depth = 2
          /\ seqToSet(obs.matches[k].pieces) \cap obs.fell # {}

\* C9: cascade termination.  Every call of joinAndScorePieces returns: an
\* activation either returns or enters the next one, one level deeper, and the
\* depth never exceeds one plus half the number of pieces removed so far (a
\* body has two pieces at least).  A recursive round is entered only after a
\* round with at least one match, and every round with a match leaves fewer
\* pieces locked.
CascadeTerminates ==
    /\ [][pc = "round" => \/ pc' = "returned"
                          \/ pc' = "round" /\ depth' = depth + 1]_vars
    /\ [](pc = "round" =>
             depth <= 1 + (Cardinality(obs.locked0) - Len(lockedPieces)) \div 2)
    /\ [][pc = "round" /\ pc' = "round" => obs'.lastBodies > 0]_vars
    /\ [][(pc = "round" /\ obs'.lastBodies > 0)
             => Len(lockedPieces') < Len(lockedPieces)]_vars

\* a call that returned from its third activation
CascadeTerminatesWitness ==
    /\ returned
    /\ depth = 3
    /\ Len(obs.matches) = 2

\* C10: compaction idempotence.  A second compactGrid right after a first
\* returns an empty list and moves no piece; after a compactGrid no locked
\* piece can move down.
CompactIdempotent ==
    obs.op = "compactGrid" =>
       /\ obs.calls >= 2 => (obs.fallen = <<>> /\ pieces = obs.before)
       /\ \A p \in lockedSet :
             ~canMove(grid, p, 0,
                      rotateSize(pieces[p].size, pieces[p].currentRotation).h)

\* the first compactGrid moved two pieces, the second none
CompactIdempotentWitness ==
    /\ obs.op = "compactGrid"
    /\ obs.calls = 2
    /\ Len(obs.fallenBefore) >= 2
    /\ obs.fallen = <<>>

-----------------------------------------------------------------------------
(* Properties of compactGrid, canMove and the bomb *)

compacted == obs.op = "compactGrid" /\ ~fatal

\* the cells directly beneath the rotated footprint of a piece record
cellsBeneath(piece) ==
    LET size == rotateSize(piece.size, piece.currentRotation) IN
    { <<x, piece.pos.y + size.h>> : x \in piece.pos.x .. piece.pos.x + size.w - 1 }

-----------------------------------------------------------------------------
(* Properties of single calls *)

\* the region the walls leave: the grid without column 0, column w-1 and
\* row h-1
inPlayable(pos, size) ==
    isWithinBounds(pos, size, Pos(1, 0), Pos(gridSize.w - 1, gridSize.h - 1))

rotatedSize(piece) == rotateSize(piece.size, piece.currentRotation)

\* the candidate rectangle of the canMove call obs describes
candidatePos == Pos(obs.before[obs.piece].pos.x + obs.dx,
                    obs.before[obs.piece].pos.y + obs.dy)
candidateSize == rotatedSize(obs.before[obs.piece])

\* the candidate meets the rotated footprint of a locked piece
candidateHits ==
    \E q \in lockedSet :
       isOverlap(candidatePos, candidateSize, pieces[q].pos, rotatedSize(pieces[q]))

\* C12: canMove collision test.  For a candidate rectangle inside the playable
\* region, canMove returns false exactly if the candidate intersects the
\* rotated footprint of a locked piece, whatever the sizes and rotations.
CanMoveCollision ==
    (obs.op = "canMove" /\ inPlayable(candidatePos, candidateSize))
       => (obs.result = FALSE <=> candidateHits)

\* C13: canMove bounds test.  canMove returns false for every candidate that is
\* not entirely inside the playable region (the grid without column 0, column
\* w-1 and row h-1), and true for a candidate inside it that meets no locked
\* piece.
CanMoveBounds ==
    obs.op = "canMove" =>
       /\ ~inPlayable(candidatePos, candidateSize) => obs.result = FALSE
       /\ (inPlayable(candidatePos, candidateSize) /\ ~candidateHits)
              => obs.result = TRUE

lockedBeforeSet == seqToSet(obs.lockedBefore)

\* C16: a duplicate lock is fatal.  lockPiece called with a piece lockedPieces
\* holds already aborts the process and leaves lockedPieces and the occupancy
\* matrix as they were; lockedPieces never lists a piece twice.
LockDuplicateFatal ==
    /\ (obs.op = "lockPiece" /\ obs.piece \in lockedBeforeSet)
          => /\ fatal
             /\ lockedPieces = obs.lockedBefore
             /\ content = obs.contentBefore
    /\ \A i, j \in DOMAIN lockedPieces :
          i # j => lockedPieces[i] # lockedPieces[j]

\* lockPiece was called with the first of two locked pieces
LockDuplicateWitness ==
    /\ obs.op = "lockPiece"
    /\ Len(obs.lockedBefore) = 2
    /\ obs.piece = obs.lockedBefore[1]
    /\ fatal

\* C17: unlockPiece called with a piece lockedPieces does not hold aborts the
\* process, removes no entry and clears no cell; called with a locked piece it
\* removes that entry and no other and clears the cells of its footprint and
\* no others.
UnlockContract ==
    obs.op = "unlockPiece" =>
       IF obs.piece \notin lockedBeforeSet
       THEN /\ fatal
            /\ lockedPieces = obs.lockedBefore
            /\ content = obs.contentBefore
       ELSE /\ ~fatal
            /\ lockedPieces = SelectSeq(obs.lockedBefore, LAMBDA q : q # obs.piece)
            /\ content = [c \in Cells |->
                             IF c \in footprint(obs.before[obs.piece])
                             THEN Nil ELSE obs.contentBefore[c]]

\* unlockPiece was called with a piece that is not locked and lies where a
\* locked piece lies, a second piece being locked as well
UnlockContractWitness ==
    /\ obs.op = "unlockPiece"
    /\ obs.piece \notin lockedBeforeSet
    /\ Len(obs.lockedBefore) = 2
    /\ \E q \in lockedBeforeSet : pieces[q].pos = pieces[obs.piece].pos

\* C18: drop changes the y of the piece only, never decreasing it, and leaves
\* every other piece, lockedPieces and the occupancy matrix alone; it stops
\* at the first position from which canMove(piece, 0, 1) is false.  canMove
\* changes neither a piece nor the grid.
DropEffect ==
    /\ obs.op = "drop" =>
          LET id == obs.piece
              b  == obs.before
          IN  /\ DOMAIN pieces = DOMAIN b
              /\ \A p \in DOMAIN pieces \ {id} : pieces[p] = b[p]
              /\ pieces[id].pos.y >= b[id].pos.y
              /\ pieces[id] = [b[id] EXCEPT !.pos.y = pieces[id].pos.y]
              /\ lockedPieces = obs.lockedBefore
              /\ content = obs.contentBefore
              /\ ~canMove(grid, id, 0, 1)
              /\ \A y \in b[id].pos.y .. pieces[id].pos.y - 1 :
                     canMove([grid EXCEPT !.pieces[id].pos.y = y], id, 0, 1)
    /\ obs.op = "canMove" =>
          /\ pieces = obs.before
          /\ lockedPieces = obs.lockedBefore
          /\ content = obs.contentBefore

\* a drop by two rows onto a grid that holds a locked piece
DropEffectWitness ==
    /\ obs.op = "drop"
    /\ obs.lockedBefore # <<>>
    /\ pieces[obs.piece].pos.y >= obs.before[obs.piece].pos.y + 2

-----------------------------------------------------------------------------
(* Properties of rotatePos and rotateSize *)

\* C19: rotatePos(p, a) is the table entry for a mod 360 (0: p, 90: (-y, x),
\* 180: (-x, -y), 270: (y, -x)) for every multiple a of 90, positive or
\* negative, of any magnitude; rotateSize(s, a) swaps w and h exactly when
\* a mod 360 is 90 or 270.
RotateTable ==
    /\ obs.op = "rotatePos" =>
          LET d == obs.angleDeg % 360
              p == obs.pos
          IN  obs.result = CASE d = 0   -> p
                             [] d = 90  -> Pos(-p.y, p.x)
                             [] d = 180 -> Pos(-p.x, -p.y)
                             [] d = 270 -> Pos(p.y, -p.x)
    /\ obs.op = "rotateSize" =>
          LET d == obs.angleDeg % 360 IN
          obs.result = IF d \in {90, 270} THEN Size(obs.size.h, obs.size.w)
                       ELSE obs.size

\* C20: rotation round trip.  rotatePos(rotatePos(p, t), -t) = p for every
\* point p and t in {0, 90, 180, 270}; rotateSize applied with 90 four times
\* in a row gives the size it started from.
RotateRoundTrip ==
    /\ obs.op = "rotateBack" => obs.result = obs.pos
    /\ obs.op = "fourTurns" => obs.result = obs.size

\* a point off both axes turned by 270 and back
RotateRoundTripWitness ==
    /\ obs.op = "rotateBack"
    /\ obs.angleDeg = 270
    /\ obs.pos = Pos(1, 2)
    /\ obs.mid = Pos(2, -1)
    /\ obs.result = obs.pos

-----------------------------------------------------------------------------
(* Properties of the bomb *)

\* the bomb landings of the last tick
bombLandings == { obs.ev.bombs[i] : i \in DOMAIN obs.ev.bombs }

\* the locked pieces with a cell in the row directly beneath the bomb
beneathBomb(l) ==
    { q \in l.before : footprint(q) \cap cellsBeneath(l.bomb) # {} }

\* C14: bomb area effect.  When a Bomb lands, the locked pieces with a cell in
\* the row directly beneath its footprint, and no others, leave lockedPieces
\* and the occupancy matrix, wherever the bomb lands.
BombAreaEffect ==
    \A l \in bombLandings :
       /\ l.after = l.before \ beneathBomb(l)
       /\ l.cells = UNION { footprint(q) : q \in l.after }

\* C15: a bomb landing is terminal.  The landing Bomb enters neither
\* lockedPieces nor the occupancy matrix, the score is the same after the
\* landing as before, and every locked piece that survives is where it was
\* (no matching, no compaction); no Bomb is ever locked.
BombTerminal ==
    /\ \A l \in bombLandings :
          /\ ~l.fatal
          /\ l.after \subseteq l.before
          /\ l.cells = UNION { footprint(q) : q \in l.after }
          /\ l.score1 = l.score0
    /\ \A p \in lockedSet : ~isBomb(pieces[p])
    /\ \A c \in Cells : content[c] # Nil => ~isBomb(pieces[content[c]])

\* a bomb that landed on a piece, removed it and left another one locked
BombTerminalWitness ==
    \E l \in bombLandings :
       /\ l.after # {}
       /\ l.after # l.before

-----------------------------------------------------------------------------
(* Properties of the start-up *)

\* a body template of the catalog names a piece type that allPieces lacks
malformed(bodies) ==
    \E b \in 1 .. Len(bodies) : \E i \in 1 .. Len(bodies[b].bodyPieces) :
        \A k \in 1 .. Len(allPieces) :
            allPieces[k].pieceType # bodies[b].bodyPieces[i].pieceType

\* C21: a catalog with a body template that names a piece type outside
\* allPieces is rejected when the catalog is initialised: NewGame does not
\* complete with it, so no piece is spawned and no tick runs.
MalformedCatalogRejected ==
    malformed(obs.bodies) => pc = "config"

-----------------------------------------------------------------------------
(* Properties of generatePiece *)

RECURSIVE statSumFrom(_, _)
statSumFrom(spawnStat, types) ==
    IF types = {} THEN 0
    ELSE LET t == CHOOSE u \in types : TRUE
         IN  spawnStat[t] + statSumFrom(spawnStat, types \ {t})

\* the sum of all spawn counters
statSum(spawnStat) == statSumFrom(spawnStat, DOMAIN spawnStat)

RECURSIVE weightBefore(_, _)
weightBefore(spawnProb, i) ==
    IF i <= 0 THEN 0
    ELSE weightBefore(spawnProb, i - 1)
             + (IF allPieces[i].pieceType \in DOMAIN spawnProb
                THEN spawnProb[allPieces[i].pieceType] ELSE ProbUnit)

\* C23: with the weights w_i (the spawnProb entry, or 1 for a type without
\* one) and the random number r of [0, sum of the weights), generatePiece
\* selects the type of index i exactly when the weights before i sum to at
\* most r and those up to i to more than r; the index is one of allPieces.
WeightedSelection ==
    obs.op = "generatePiece" =>
        /\ obs.newPieceIdx \in 0 .. Len(allPieces) - 1
        /\ \A i \in 0 .. Len(allPieces) - 1 :
               obs.newPieceIdx = i
                   <=> /\ weightBefore(obs.probBefore, i) <= obs.randNum
                       /\ obs.randNum < weightBefore(obs.probBefore, i + 1)
        /\ pieces[obs.piece].pieceType = allPieces[obs.newPieceIdx + 1].pieceType

\* the random number is exactly the sum of the weights before a type that is
\* not the first one, and that type is selected
WeightedSelectionWitness ==
    /\ obs.op = "generatePiece"
    /\ obs.newPieceIdx > 0
    /\ obs.randNum = weightBefore(obs.probBefore, obs.newPieceIdx)
    /\ obs.probBefore = spawnProbOfNewGame

-----------------------------------------------------------------------------
(* Properties of the game loop *)

\* the landings the last tick resolved, in order
landings == { obs.ev.landings[i] : i \in 1 .. Len(obs.ev.landings) }

\* C24: when a landing has been resolved and the landed active piece is in
\* row 0 and cannot move down, the game ends: the game-over dialog is
\* blocking, the active-piece component is inactive, the current score is
\* appended to the saved scores and no piece is generated; after any other
\* landing the next piece is the active piece, a new next piece is generated
\* and the game goes on.
LandingEndsOrContinues ==
    pc = "game" =>
        \A l \in landings :
            IF l.atTop /\ ~l.canMoveDown
            THEN /\ l.gameOverState = "StateBlocking"
                 /\ l.apcState = "StateInactive"
                 /\ l.saved = <<l.score>>
                 /\ l.generated = 0
                 /\ ~l.promoted
            ELSE /\ l.gameOverState = "StateInactive"
                 /\ l.apcState = "StateActive"
                 /\ l.saved = <<>>
                 /\ l.generated = 1
                 /\ l.promoted

\* a tick that resolved two landings: the first passed the next piece on, the
\* second ended the game with a positive score
LandingEndsWitness ==
    /\ pc = "game"
    /\ Len(obs.ev.landings) = 2
    /\ obs.ev.landings[1].promoted
    /\ obs.ev.landings[2].saved # <<>>
    /\ gameOverState = "StateBlocking"

\* a landing in row 0 after which the game went on
LandingContinuesAtTopWitness ==
    /\ pc = "game"
    /\ \E l \in landings : l.atTop /\ l.canMoveDown /\ l.promoted

\* C25: when Game.Reset returns, from any state of a session, game over
\* included, the score is 0, no piece is locked and every cell is empty, the
\* speed level index and the frame and drop counters are 0, the spawn
\* statistics count the two pieces just generated and nothing else, the
\* game-over dialog is inactive and the new active piece is at the spawn
\* position in row 0.
ResetEffect ==
    (pc = "session" /\ obs.op = "Update") =>
        \A r \in { obs.reset[i] : i \in 1 .. Len(obs.reset) } :
            /\ r.score = 0
            /\ r.lockedPieces = <<>>
            /\ \A c \in Cells : r.content[c] = Nil
            /\ r.stats.speedLevelIdx = 0
            /\ r.stats.frameCount = 0
            /\ r.stats.dropFrameCount = 0
            /\ r.stats.spawnStat
                   = spawnStatCount(spawnStatCount(NoStat, r.active.pieceType),
                                    r.next.pieceType)
            /\ r.gameOverState = "StateInactive"
            /\ r.active.pos = Pos(GridW \div 2, 0)

-----------------------------------------------------------------------------
(* Properties of the high-score file *)

\* how often v occurs in the sequence seq
occurrences(seq, v) == Cardinality({ i \in 1 .. Len(seq) : seq[i] = v })

\* the largest element of the sequence of scores, 0 for the empty one
maxSaved(saved) ==
    IF saved = <<>> THEN 0
    ELSE CHOOSE v \in seqToSet(saved) : \A u \in seqToSet(saved) : u <= v

\* C26: after any sequence of saveScore calls loadHighScore returns the
\* largest saved score, 0 if none was saved, so that saving a lower score
\* does not lower it; loadTopScores returns at most 5 saved scores, the
\* largest ones, in descending order.
HighScoreContract ==
    pc = "scores" =>
        /\ obs.op \in {"saveScore", "loadTopScores"} =>
               obs.highScore = maxSaved(obs.saved)
        /\ obs.op = "saveScore" =>
               /\ obs.highScore >= obs.highBefore
               /\ obs.score <= obs.highBefore => obs.highScore = obs.highBefore
        /\ obs.op = "loadTopScores" =>
               LET top == obs.topScores IN
               /\ Len(top) = IF Len(obs.saved) > 5 THEN 5 ELSE Len(obs.saved)
               /\ \A i \in 1 .. Len(top) - 1 : top[i] >= top[i + 1]
               /\ \A v \in seqToSet(top) :
                      occurrences(top, v) <= occurrences(obs.saved, v)
               /\ \A v \in seqToSet(obs.saved) : \A u \in seqToSet(top) :
                      occurrences(top, v) < occurrences(obs.saved, v) => v <= u

\* six scores were saved, the largest one neither first nor last, and the top
\* scores leave out a score lower than the five returned
HighScoreWitness ==
    /\ pc = "scores"
    /\ obs.op = "loadTopScores"
    /\ Len(obs.saved) = 6
    /\ obs.saved[1] < obs.highScore
    /\ obs.saved[6] < obs.highScore
    /\ obs.saved[1] < obs.topScores[5]

\* C27: in every execution of the game loop, with any keys and timed
\* move-downs in every tick up to the one that ends the game, lockPiece is
\* never called on a piece that is in lockedPieces and unlockPiece never on
\* one that is not: neither call reaches its fatal branch.
FatalUnreachable ==
    pc = "game" => ~fatal

\* the locked piece id could move down by one cell: the cells its footprint
\* takes one row further down are inside the region canMove admits and none
\* of them belongs to another locked piece
couldMoveDown(id) ==
    LET piece == pieces[id]
        size  == rotateSize(piece.size, piece.currentRotation)
    IN  /\ piece.pos.y + 1 + size.h <= GridH
        /\ \A dx \in 0 .. size.w - 1 : \A dy \in 0 .. size.h - 1 :
               content[<<piece.pos.x + dx, piece.pos.y + 1 + dy>>] \in {Nil, id}

\* C28: at every tick boundary of a game started on an empty grid, every
\* locked piece rests on the bottom of the region canMove admits or on
\* another locked piece: no locked piece could move down by one cell, also
\* after a bomb has destroyed pieces.
GravityStable ==
    (pc = "game" /\ ~fatal) => \A id \in lockedSet : ~couldMoveDown(id)

\* a tick in which a match made a piece fall and left pieces locked
GravityStableWitness ==
    /\ pc = "game"
    /\ ~fatal
    /\ obs.op = "Update"
    /\ obs.ev.fell > 0
    /\ lockedPieces # <<>>

\* a tick in which a bomb destroyed a piece and left pieces locked
GravityAfterBombWitness ==
    /\ pc = "game"
    /\ ~fatal
    /\ obs.op = "Update"
    /\ obs.ev.bombed > 0
    /\ lockedPieces # <<>>

\* C29: at every tick boundary of a game started on an empty grid no complete
\* body stands on the board: matchAtLockedPiece finds no match for any body
\* of the catalog at any locked piece.
BoardBodyFree ==
    (pc = "game" /\ ~fatal) =>
        \A id \in lockedSet : \A b \in 1 .. Len(allBodies) :
            matchAtLockedPiece(grid, allBodies[b], id) = <<>>

\* a tick that resolved a landing with a match and left pieces locked
BoardBodyFreeWitness ==
    /\ pc = "game"
    /\ ~fatal
    /\ obs.op = "Update"
    /\ obs.ev.matches > 0
    /\ lockedPieces # <<>>

-----------------------------------------------------------------------------
(* Properties of a joinPieces pass *)

\* C30: a piece removed by a body match produces no further match, score or
\* unlock in the pass, neither for a later template of the same iteration of
\* the body loop nor when it is dequeued later as a seed: the matches of a
\* pass have no piece in common, every matched piece was locked and is
\* unlocked once, and every seed is the seed of one match at most.
ConsumedOnce ==
    (pc = "joined" /\ obs.op = "joinPieces") =>
        /\ ~fatal
        /\ \A k \in DOMAIN obs.matched :
              /\ obs.seeds[k] \in seqToSet(obs.matched[k])
              /\ seqToSet(obs.matched[k]) \subseteq obs.lockedBefore
              /\ seqToSet(obs.matched[k]) \cap lockedSet = {}
              /\ Cardinality(seqToSet(obs.matched[k])) = Len(obs.matched[k])
        /\ \A k, l \in DOMAIN obs.matched :
              k # l => /\ obs.seeds[k] # obs.seeds[l]
                       /\ seqToSet(obs.matched[k]) \cap seqToSet(obs.matched[l]) = {}
        /\ Len(obs.bodies) <= Len(obs.pieces)

\* the second seed of the pass had been removed by the match of the first
ConsumedSeedWitness ==
    /\ pc = "joined"
    /\ obs.op = "joinPieces"
    /\ Len(obs.pieces) = 2
    /\ Len(obs.bodies) = 1
    /\ obs.pieces[2] \in seqToSet(obs.matched[1])

-----------------------------------------------------------------------------
(* Properties of one activation of joinAndScorePieces *)

\* C31: a pass without a match changes nothing.  If no seed of an activation
\* of joinAndScorePieces is part of a complete body, the activation calls
\* compactGrid not at all, returns without recursing and leaves lockedPieces,
\* the occupancy matrix, every piece (its position included) and the score as
\* they were.
NoMatchNoChange ==
    [][(pc = "round" /\ \A k \in DOMAIN queue : ~inCompleteBody(queue[k]))
          => /\ pieces' = pieces
             /\ lockedPieces' = lockedPieces
             /\ content' = content
             /\ fatal' = fatal
             /\ score' = score
             /\ obs'.compactions = obs.compactions
             /\ obs'.lastBodies = 0
             /\ pc' = "returned"]_vars

\* a call that matched nothing returned with a piece still hanging in the air
NoMatchWitness ==
    /\ returned
    /\ depth = 1
    /\ obs.matches = <<>>
    /\ obs.compactions = 0
    /\ \E p \in lockedSet : canMove(grid, p, 0, 1)

-----------------------------------------------------------------------------
(* Properties of the active piece *)

\* C32: the active piece stays legal.  At every tick boundary while the game
\* is not over, the footprint of the active piece lies in columns 1..w-2 and
\* rows 0..h-1, overlaps no locked piece and the active piece is not locked;
\* and after every landing that did not end the game no locked piece is on
\* the spawn cell (w/2, 0), where the new active piece stands.
ActivePieceLegal ==
    (pc = "game" /\ ~fatal) =>
        /\ gameOverState = "StateInactive" =>
              /\ activePiece # Nil
              /\ activePiece \notin lockedSet
              /\ footprint(pieces[activePiece])
                    \subseteq (1 .. gridSize.w - 2) \X (0 .. gridSize.h - 1)
              /\ \A c \in footprint(pieces[activePiece]) : content[c] = Nil
        /\ \A l \in landings :
              l.gameOverState = "StateInactive" => l.spawnCell = Nil

\* a landing filled the cell right beneath the spawn cell, the game went on
\* and the new active piece stands on the spawn cell
ActivePieceLegalWitness ==
    /\ pc = "game"
    /\ ~fatal
    /\ obs.op = "Update"
    /\ gameOverState = "StateInactive"
    /\ landings # {}
    /\ content[<<gridSize.w \div 2, 1>>] # Nil
    /\ pieces[activePiece].pos = Pos(gridSize.w \div 2, 0)

\* the active piece stands beside a locked piece, in the bottom row
ActivePieceBesideLockedWitness ==
    /\ pc = "game"
    /\ ~fatal
    /\ gameOverState = "StateInactive"
    /\ pieces[activePiece].pos.y = gridSize.h - 1
    /\ \E id \in lockedSet :
          /\ pieces[id].pos.y = gridSize.h - 1
          /\ pieces[id].pos.x \in {pieces[activePiece].pos.x - 1,
                                   pieces[activePiece].pos.x + 1}

-----------------------------------------------------------------------------
(* Properties of the game-over period *)

\* C33: game over freezes the board.  A tick that starts with the game-over
\* dialog up and does not click the restart box changes neither
\* lockedPieces, nor the occupancy matrix, nor the score, nor the speed
\* level, nor any piece (the position and the rotation of the active piece
\* included), whatever keys are pressed; the drop counter stands still too,
\* so no timed move-down comes due, and the dialog stays up: the next tick
\* starts in the same situation.
GameOverFreezes ==
    [][(pc = "session" /\ gameOverState = "StateBlocking" /\ ~obs'.restart)
          => /\ lockedPieces' = lockedPieces
             /\ content' = content
             /\ score' = score
             /\ pieces' = pieces
             /\ activePiece' = activePiece
             /\ nextPiece' = nextPiece
             /\ obs'.stats.speedLevelIdx = obs.stats.speedLevelIdx
             /\ obs'.stats.dropFrameCount = obs.stats.dropFrameCount
             /\ gameOverState' = "StateBlocking"
             /\ apcState' = "StateInactive"
             /\ ~fatal']_vars

\* a tick of the game-over period with every key pressed (left, right,
\* rotate, drop, speed-up), after the speed level had been raised
GameOverFreezesWitness ==
    /\ pc = "session"
    /\ obs.op = "Update"
    /\ obs.wasOver
    /\ obs.pressed = 5
    /\ ~obs.restart
    /\ gameOverState = "StateBlocking"
    /\ obs.stats.speedLevelIdx > 0
    /\ lockedPieces # <<>>

-----------------------------------------------------------------------------
(* Properties of the anchor of a match *)

\* C34: anchor independence.  When matchAtLockedPiece(b, p) has returned a
\* non-empty list, a call of matchAtLockedPiece(b, q) on the same grid returns
\* the same set of pieces for every piece q of that list.
AnchorIndependent ==
    (pc = "matched" /\ matchCalled) =>
        \A q \in seqToSet(obs.result) :
            seqToSet(matchAtLockedPiece(grid, allBodies[obs.body], q))
                = seqToSet(obs.result)

\* a body of three pieces, turned, was found from the piece in its last slot
AnchorIndependentWitness ==
    /\ pc = "matched"
    /\ matchCalled
    /\ Len(obs.result) = 3
    /\ obs.result[3] = obs.lockedPiece
    /\ LET b == allBodies[obs.body] IN
          pieces[obs.lockedPiece].currentRotation # b.bodyPieces[3].rotation

-----------------------------------------------------------------------------
(* Properties of the bomb in game play *)

\* C35: in every state reachable through game play no piece of type Bomb is
\* in lockedPieces and no cell of the occupancy matrix holds one.
NoBombLocked ==
    (pc = "game" /\ ~fatal) =>
        /\ \A i \in 1 .. Len(lockedPieces) :
               pieces[lockedPieces[i]].pieceType # "Bomb"
        /\ \A c \in Cells :
               content[c] # Nil => pieces[content[c]].pieceType # "Bomb"

\* a bomb landed on the bottom, next to a locked piece, and destroyed nothing
NoBombLockedWitness ==
    /\ pc = "game"
    /\ ~fatal
    /\ obs.op = "Update"
    /\ lockedPieces # <<>>
    /\ \E k \in DOMAIN obs.ev.bombs :
          /\ obs.ev.bombs[k].bomb.pos.y = gridSize.h - 1
          /\ obs.ev.bombs[k].before = obs.ev.bombs[k].after
          /\ obs.ev.bombs[k].before # {}

-----------------------------------------------------------------------------
(* Properties of the depth of a cascade *)

-----------------------------------------------------------------------------
(* Properties of the next piece *)

\* C37: next-piece hand-over.  After every landing that does not end the
\* game the active piece is the piece that was the next piece before the
\* landing, as it was generated, and the next piece is a piece that did not
\* exist before the landing; after a landing that ends the game nothing is
\* handed over.  A tick without a landing and without a Reset leaves the
\* active piece and the next piece the pieces they were.
NextPieceHandOver ==
    /\ [](pc = "game" =>
            \A l \in landings :
               IF l.gameOverState = "StateInactive"
               THEN l.promoted /\ l.handedOver /\ l.fresh /\ l.generated = 1
               ELSE ~l.promoted /\ l.generated = 0)
    /\ [][(pc = "game" /\ ~fatal' /\ obs'.ev.landings = <<>> /\ ~obs'.ev.reset)
             => /\ activePiece' = activePiece
                /\ nextPiece' = nextPiece
                /\ pieces'[activePiece'].pieceType = pieces[activePiece].pieceType
                /\ pieces'[nextPiece'] = pieces[nextPiece]]_vars

\* a tick with two landings, each of which handed the next piece over, the
\* two pieces handed over being of different types
NextPieceHandOverWitness ==
    /\ pc = "game"
    /\ ~fatal
    /\ obs.op = "Update"
    /\ Len(obs.ev.landings) = 2
    /\ obs.ev.landings[1].handedOver
    /\ obs.ev.landings[2].handedOver
    /\ gameOverState = "StateInactive"
    /\ pieces[activePiece].pieceType # pieces[nextPiece].pieceType

-----------------------------------------------------------------------------
(* Properties of the timed move-down *)

\* C38: every piece lands.  While the game is not over, every timed
\* move-down either moves the active piece down by one row or triggers its
\* landing; an active piece that has not landed has had at most h - 1 timed
\* move-downs, and a landing triggered by a timed move-down is triggered by
\* the h-th one at the latest, h being the grid height.
EveryPieceLands ==
    /\ [](pc = "timed" =>
            /\ (~fatal /\ gameOverState = "StateInactive")
                  => obs.moves <= gridSize.h - 1
            /\ \A i \in DOMAIN obs.landedAfter :
                  obs.landedAfter[i] <= gridSize.h)
    /\ [][(pc = "timed" /\ obs'.timer)
             => \/ obs'.ev.landed > 0
                \/ /\ activePiece' = activePiece
                   /\ pieces'[activePiece'].pos.y = pieces[activePiece].pos.y + 1
                   /\ obs'.moves = obs.moves + 1]_vars

\* a piece that landed on the bottom row with its h-th timed move-down, after
\* another piece had landed
EveryPieceLandsWitness ==
    /\ pc = "timed"
    /\ ~fatal
    /\ obs.op = "Update"
    /\ obs.landedAfter = <<gridSize.h>>
    /\ Len(lockedPieces) >= 2
    /\ gameOverState = "StateInactive"

\* a piece that landed on another piece with a timed move-down
LandsOnPieceWitness ==
    /\ pc = "timed"
    /\ ~fatal
    /\ obs.op = "Update"
    /\ obs.landedAfter = <<gridSize.h - 1>>
    /\ obs.ev.landings # <<>>

-----------------------------------------------------------------------------
(* Properties of the controls *)

\* what control c reports after the tick
pressed(c) ==
    IF c = "mouse" THEN isMouseLeftClick(obs.mouseLeftState)
    ELSE isKeyPressed(obs.keyState, c)

\* C39: key edge detection.  A control reports "pressed" in a tick exactly
\* when that tick is the first of a run of consecutive ticks in which it is
\* down, so it reports "pressed" again only after a tick in which it was
\* seen up.  Its action fires in no other tick: a tick in which neither left
\* nor right reports "pressed" leaves the column of the active piece alone,
\* one without rotate its rotation, one without drop lands no piece, one
\* without a click does not reset and one without speed-up keeps the speed
\* level; and a press acts once: left moves the piece by one cell when it
\* can move, rotate turns it by 90 degrees, drop lands it, speed-up raises
\* the level by one and a click on the restart box resets the game.
KeyEdgeDetection ==
    /\ [](pc = "input" => \A c \in Controls : pressed(c) <=> obs.held[c] = 1)
    /\ [][(pc = "input" /\ ~fatal')
             => LET first(c) == obs'.held[c] = 1
                    same     == obs'.ev.landed = 0 /\ ~obs'.ev.reset
                    running  == gameOverState = "StateInactive"
                    a        == pieces[activePiece]
                    b        == pieces'[activePiece']
                IN  /\ (same /\ ~first("left") /\ ~first("right"))
                          => b.pos.x = a.pos.x
                    /\ (same /\ ~first("rotate"))
                          => b.currentRotation = a.currentRotation
                    /\ ~first("drop") => obs'.ev.landed = 0
                    /\ ~first("mouse") => ~obs'.ev.reset
                    /\ (~first("speedup") /\ ~obs'.ev.reset)
                          => obs'.speedLevelIdx = obs.speedLevelIdx
                    /\ (same /\ running /\ first("left"))
                          => b.pos.x = IF canMove(grid, activePiece, -1, 0)
                                       THEN a.pos.x - 1 ELSE a.pos.x
                    /\ (same /\ running /\ first("rotate") /\ ~isBomb(a))
                          => b.currentRotation = (a.currentRotation + 90) % 360
                    /\ (running /\ first("drop")) => obs'.ev.landed = 1
                    /\ first("mouse") => obs'.ev.reset
                    /\ (running /\ first("speedup"))
                          => obs'.speedLevelIdx = obs.speedLevelIdx + 1]_vars

\* the left key was held for three ticks and the piece moved one cell
KeyEdgeDetectionWitness ==
    /\ pc = "input"
    /\ ~fatal
    /\ obs.held["left"] = 3
    /\ gameOverState = "StateInactive"
    /\ lockedPieces = <<>>
    /\ pieces[activePiece].pos = Pos(gridSize.w \div 2 - 1, 0)

\* the rotate key was pressed, held, released and pressed again: the piece
\* turned twice
KeyPressedAgainWitness ==
    /\ pc = "input"
    /\ ~fatal
    /\ obs.ticks = 4
    /\ obs.held["rotate"] = 1
    /\ lockedPieces = <<>>
    /\ pieces[activePiece].currentRotation = 180

\* a second key of a control goes down while the first is held: no new press
SecondKeyWitness ==
    /\ pc = "input"
    /\ {"KeyArrowLeft", "KeyNumpad7"} \subseteq obs.down
    /\ obs.held["left"] = 2

====
